---- MODULE Spec2Model ----
(***************************************************************************)
(* The event-sourced ledger of rostr (src/src/rostr/ledger.py).            *)
(*                                                                         *)
(* append_event writes one JSON line to the journal and then calls         *)
(* rebuild_state, which folds the whole journal into three dictionaries    *)
(* and writes each of them to its own snapshot file.                       *)
(*                                                                         *)
(* The journal file is a sequence of chunks, one per write that reached    *)
(* the file: a chunk is the JSON text of an event (whole or cut short) and *)
(* says whether the terminating newline was written.  A dictionary is a    *)
(* function from its keys to its values; payload values are JSON scalars   *)
(* (strings, numbers, booleans), on which json.dumps and json.loads are    *)
(* inverse, so a whole chunk parses back to the event that was dumped.     *)
(***************************************************************************)
EXTENDS Integers, Sequences, FiniteSets, TLC

VARIABLES
    journal_exists,     \* JOURNAL_FILE.exists()
    journal,            \* content of JOURNAL_FILE: the chunks written so far
    people_file,        \* PEOPLE_FILE
    projects_file,      \* PROJECTS_FILE
    allocations_file,   \* ALLOCATIONS_FILE
    state_people,       \* local of rebuild_state
    state_projects,     \* local of rebuild_state
    state_allocations,  \* local of rebuild_state
    pc,                 \* position of the running call
    caller,             \* entry point of the running (or last) call
    event,              \* local of append_event: the event it built
    outcome,            \* how the last finished call ended
    ret,                \* value the last call returned
    faults,             \* crashes and I/O errors so far
    before,             \* the snapshots as the running call found them
    loaded,             \* what the last load_state of a reader gave
    peer                \* a second process running append_event

vars == <<journal_exists, journal, people_file, projects_file,
          allocations_file, state_people, state_projects, state_allocations,
          pc, caller, event, outcome, ret, faults, before, loaded, peer>>

(***************************************************************************)
(* Bounds of the model.                                                    *)
(***************************************************************************)
MaxJournal == 3
MaxFaults == 1
\* The commands of the CLI get one record more: project unallocate needs an
\* allocation, which needs a person and a project.
MaxCliJournal == MaxJournal + 1
\* And one more where an unallocate is run twice.
MaxStaffJournal == MaxJournal + 2

(***************************************************************************)
(* Python values.                                                          *)
(***************************************************************************)
None == "None"
EmptyDict == <<>>

Has(d, k) == k \in DOMAIN d

\* d[k] = v
DictSet(d, k, v) ==
    [x \in (DOMAIN d) \cup {k} |-> IF x = k THEN v ELSE d[x]]

\* d replaced by other instead of merged with it.
DictReplace(d, other) == other

\* d.update(other)
DictUpdate(d, other) ==
    [x \in (DOMAIN d) \cup (DOMAIN other) |->
        IF x \in DOMAIN other THEN other[x] ELSE d[x]]

\* del d[k]
DictDel(d, k) == [x \in (DOMAIN d) \ {k} |-> d[x]]

(***************************************************************************)
(* Snapshot files.                                                         *)
(***************************************************************************)
Absent == [kind |-> "absent", data |-> EmptyDict]
Truncated == [kind |-> "truncated", data |-> EmptyDict]
JsonFile(d) == [kind |-> "json", data |-> d]

\* load_state: the dictionary in the file, {} when the file is missing or
\* does not parse.
load_state(file) == IF file.kind = "json" THEN file.data ELSE EmptyDict

(***************************************************************************)
(* The journal.                                                            *)
(***************************************************************************)
\* json.dumps(event) + "\n", written completely.
FullChunk(ev) == [ev |-> ev, complete |-> TRUE, nl |-> TRUE]
\* What a write that was cut short can leave: part of the JSON text, or all
\* of it without the newline.
PartChunk(ev) == [ev |-> ev, complete |-> FALSE, nl |-> FALSE]
NoNlChunk(ev) == [ev |-> ev, complete |-> TRUE, nl |-> FALSE]
\* The rest of a line whose first part was written earlier, with its newline.
RestChunk(ev) == [ev |-> ev, complete |-> FALSE, nl |-> TRUE]

RECURSIVE SplitLines(_, _)
\* "for line in f": the chunks up to and including each newline make one
\* line; what follows the last newline is a last line of its own.
SplitLines(chunks, cur) ==
    IF chunks = <<>>
    THEN IF cur = <<>> THEN <<>> ELSE <<cur>>
    ELSE IF Head(chunks).nl
         THEN <<Append(cur, Head(chunks))>> \o SplitLines(Tail(chunks), <<>>)
         ELSE SplitLines(Tail(chunks), Append(cur, Head(chunks)))

Lines(chunks) == SplitLines(chunks, <<>>)

\* json.loads(line) succeeds exactly on one whole JSON text.
Parses(line) == Len(line) = 1 /\ line[1].complete
JsonLoads(line) == line[1].ev

(***************************************************************************)
(* The reducer: the body of the loop of rebuild_state.                     *)
(***************************************************************************)
Blank == [people |-> EmptyDict, projects |-> EmptyDict,
          allocations |-> EmptyDict, err |-> "none"]

Raise(s, e) == [s EXCEPT !.err = e]

\* The branch of line 77, nested under PERSON_OFFBOARDED.
UnavailabilityAdded(s, data) ==
    IF ~Has(data, "email") THEN Raise(s, "KeyError")
    ELSE IF data["email"] \notin DOMAIN s.people THEN s
    ELSE IF ~Has(data, "start_date") \/ ~Has(data, "end_date")
         THEN Raise(s, "KeyError")
    ELSE LET email == data["email"]
             old == IF Has(s.people[email], "unavailability")
                    THEN s.people[email]["unavailability"] ELSE <<>>
             entry == [start_date |-> data["start_date"],
                       end_date |-> data["end_date"],
                       reason |-> IF Has(data, "reason")
                                  THEN data["reason"] ELSE "PTO"]
         IN [s EXCEPT !.people = DictSet(s.people, email,
                DictSet(s.people[email], "unavailability",
                        Append(old, entry)))]

\* PERSON_ADDED that files the record under the person's name.
PersonAddedByName(s, data) ==
    IF ~Has(data, "name") THEN Raise(s, "KeyError")
    ELSE [s EXCEPT !.people = DictSet(s.people, data["name"], data)]

\* PERSON_ADDED that merges into a record it finds.
PersonAddedMerged(s, data) ==
    IF ~Has(data, "email") THEN Raise(s, "KeyError")
    ELSE IF data["email"] \in DOMAIN s.people
         THEN [s EXCEPT !.people = DictSet(s.people, data["email"],
                   [x \in (DOMAIN s.people[data["email"]]) \cup (DOMAIN data)
                       |-> IF x \in DOMAIN data THEN data[x]
                           ELSE s.people[data["email"]][x]])]
         ELSE [s EXCEPT !.people = DictSet(s.people, data["email"], data)]

PersonAdded(s, data) ==
    IF ~Has(data, "email") THEN Raise(s, "KeyError")
    ELSE [s EXCEPT !.people = DictSet(s.people, data["email"], data)]

\* PERSON_EDITED that creates the record it does not find.
PersonUpserted(s, data) ==
    IF ~Has(data, "email") THEN Raise(s, "KeyError")
    ELSE IF data["email"] \in DOMAIN s.people
         THEN [s EXCEPT !.people = DictSet(s.people, data["email"],
                   DictUpdate(s.people[data["email"]], data))]
         ELSE [s EXCEPT !.people = DictSet(s.people, data["email"], data)]

PersonEdited(s, data) ==
    IF ~Has(data, "email") THEN Raise(s, "KeyError")
    ELSE IF data["email"] \in DOMAIN s.people
         THEN [s EXCEPT !.people = DictSet(s.people, data["email"],
                   DictUpdate(s.people[data["email"]], data))]
         ELSE s

\* PERSON_DELETED that removes the record.
PersonRemoved(s, data) ==
    IF ~Has(data, "email") THEN Raise(s, "KeyError")
    ELSE IF data["email"] \in DOMAIN s.people
         THEN [s EXCEPT !.people = DictDel(s.people, data["email"])]
         ELSE s

\* PERSON_DELETED that also drops the allocations of the person.
PersonDeletedCascading(s, data) ==
    IF ~Has(data, "email") THEN Raise(s, "KeyError")
    ELSE IF data["email"] \in DOMAIN s.people
         THEN [s EXCEPT !.people = DictSet(s.people, data["email"],
                   DictSet(s.people[data["email"]], "is_active", FALSE)),
                        !.allocations =
                   [a \in { x \in DOMAIN s.allocations :
                              s.allocations[x]["email"] # data["email"] }
                       |-> s.allocations[a]]]
         ELSE s

PersonDeleted(s, data) ==
    IF ~Has(data, "email") THEN Raise(s, "KeyError")
    ELSE IF data["email"] \in DOMAIN s.people
         THEN [s EXCEPT !.people = DictSet(s.people, data["email"],
                   DictSet(s.people[data["email"]], "is_active", FALSE))]
         ELSE s

\* PERSON_OFFBOARDED that also deactivates the person.
PersonOffboardedInactive(s, e_type, data) ==
    IF ~Has(data, "email") THEN Raise(s, "KeyError")
    ELSE IF data["email"] \in DOMAIN s.people
         THEN IF ~Has(data, "exit_date") THEN Raise(s, "KeyError")
              ELSE [s EXCEPT !.people = DictSet(s.people, data["email"],
                       DictSet(DictSet(s.people[data["email"]], "exit_date",
                                       data["exit_date"]),
                               "is_active", FALSE))]
         ELSE s

PersonOffboarded(s, e_type, data) ==
    IF ~Has(data, "email") THEN Raise(s, "KeyError")
    ELSE IF data["email"] \in DOMAIN s.people
         THEN IF ~Has(data, "exit_date") THEN Raise(s, "KeyError")
              ELSE [s EXCEPT !.people = DictSet(s.people, data["email"],
                       DictSet(s.people[data["email"]], "exit_date",
                               data["exit_date"]))]
         ELSE IF e_type = "UNAVAILABILITY_ADDED"
              THEN UnavailabilityAdded(s, data)
              ELSE s

ProjectAdded(s, data) ==
    IF ~Has(data, "project_id") THEN Raise(s, "KeyError")
    ELSE [s EXCEPT !.projects = DictSet(s.projects, data["project_id"], data)]

ProjectEdited(s, data) ==
    IF ~Has(data, "project_id") THEN Raise(s, "KeyError")
    ELSE IF data["project_id"] \in DOMAIN s.projects
         THEN [s EXCEPT !.projects = DictSet(s.projects, data["project_id"],
                   DictUpdate(s.projects[data["project_id"]], data))]
         ELSE s

\* PROJECT_DELETED that removes the record.
ProjectRemoved(s, data) ==
    IF ~Has(data, "project_id") THEN Raise(s, "KeyError")
    ELSE IF data["project_id"] \in DOMAIN s.projects
         THEN [s EXCEPT !.projects = DictDel(s.projects, data["project_id"])]
         ELSE s

\* PROJECT_DELETED that keeps a tombstone only.
ProjectTombstoned(s, data) ==
    IF ~Has(data, "project_id") THEN Raise(s, "KeyError")
    ELSE IF data["project_id"] \in DOMAIN s.projects
         THEN [s EXCEPT !.projects = DictSet(s.projects, data["project_id"],
                   [project_id |-> data["project_id"],
                    status |-> "Deleted"])]
         ELSE s

ProjectDeleted(s, data) ==
    IF ~Has(data, "project_id") THEN Raise(s, "KeyError")
    ELSE IF data["project_id"] \in DOMAIN s.projects
         THEN [s EXCEPT !.projects = DictSet(s.projects, data["project_id"],
                   DictSet(s.projects[data["project_id"]], "status",
                           "Deleted"))]
         ELSE s

AllocationAdded(s, data) ==
    IF ~Has(data, "allocation_id") THEN Raise(s, "KeyError")
    ELSE [s EXCEPT !.allocations =
              DictSet(s.allocations, data["allocation_id"], data)]

\* ALLOCATION_REMOVED that empties the whole map.
AllocationsCleared(s, data) ==
    IF ~Has(data, "allocation_id") THEN Raise(s, "KeyError")
    ELSE IF data["allocation_id"] \in DOMAIN s.allocations
         THEN [s EXCEPT !.allocations = EmptyDict]
         ELSE s

AllocationRemoved(s, data) ==
    IF ~Has(data, "allocation_id") THEN Raise(s, "KeyError")
    ELSE IF data["allocation_id"] \in DOMAIN s.allocations
         THEN [s EXCEPT !.allocations =
                   DictDel(s.allocations, data["allocation_id"])]
         ELSE s

\* The chain with a final else that rejects the event type.
ApplyEventStrict(s, e_type, data) ==
    CASE e_type = "PERSON_ADDED" -> PersonAdded(s, data)
      [] e_type = "PERSON_EDITED" -> PersonEdited(s, data)
      [] e_type = "PERSON_DELETED" -> PersonDeleted(s, data)
      [] e_type = "PERSON_OFFBOARDED" -> PersonOffboarded(s, e_type, data)
      [] e_type = "PROJECT_ADDED" -> ProjectAdded(s, data)
      [] e_type = "PROJECT_EDITED" -> ProjectEdited(s, data)
      [] e_type = "PROJECT_DELETED" -> ProjectDeleted(s, data)
      [] e_type = "ALLOCATION_ADDED" -> AllocationAdded(s, data)
      [] e_type = "ALLOCATION_REMOVED" -> AllocationRemoved(s, data)
      [] OTHER -> Raise(s, "ValueError")

\* The if/elif chain of lines 66-105 on one parsed event.
ApplyEvent(s, e_type, data) ==
    CASE e_type = "PERSON_ADDED" -> PersonAdded(s, data)
      [] e_type = "PERSON_EDITED" -> PersonEdited(s, data)
      [] e_type = "PERSON_DELETED" -> PersonDeleted(s, data)
      [] e_type = "PERSON_OFFBOARDED" -> PersonOffboarded(s, e_type, data)
      [] e_type = "PROJECT_ADDED" -> ProjectAdded(s, data)
      [] e_type = "PROJECT_EDITED" -> ProjectEdited(s, data)
      [] e_type = "PROJECT_DELETED" -> ProjectDeleted(s, data)
      [] e_type = "ALLOCATION_ADDED" -> AllocationAdded(s, data)
      [] e_type = "ALLOCATION_REMOVED" -> AllocationRemoved(s, data)
      [] OTHER -> s

\* One iteration of "for line in f" (lines 57-105).
ReduceLine(s, line) ==
    IF line = <<>> THEN s
    ELSE IF ~Parses(line) THEN Raise(s, "JSONDecodeError")
    ELSE ApplyEvent(s, JsonLoads(line).event_type, JsonLoads(line).payload)

RECURSIVE ReduceFrom(_, _)
\* The loop: an exception ends it.
ReduceFrom(s, lines) ==
    IF lines = <<>> \/ s.err # "none" THEN s
    ELSE ReduceFrom(ReduceLine(s, Head(lines)), Tail(lines))

\* A fold that starts at the last line of the journal.
ReduceBackwards(lines) ==
    ReduceFrom(Blank, [i \in 1..Len(lines) |-> lines[Len(lines) + 1 - i]])

Reduce(lines) == ReduceFrom(Blank, lines)

(***************************************************************************)
(* The callers' inputs: (event_type, payload) pairs handed to append_event.*)
(* The payloads are those the CLI commands build, cut down to the fields   *)
(* the reducer and the properties look at.  append_event validates         *)
(* nothing, so a payload without its key field and an event type the       *)
(* reducer does not know are inputs too.                                   *)
(***************************************************************************)
Ann == [email |-> "a@x.com", name |-> "Ann", capacity |-> 40,
        skill |-> <<"Go:5">>, is_active |-> TRUE]
Bob == [email |-> "b@x.com", name |-> "Bob", capacity |-> 40,
        skill |-> <<>>, is_active |-> TRUE]
Apollo == [project_id |-> "apollo", name |-> "Apollo", status |-> "Active",
           probability |-> 100, required_skills |-> <<>>]
Abc123 == [allocation_id |-> "abc123", project_id |-> "apollo",
           email |-> "a@x.com", hours |-> 20,
           start_date |-> "2025-01-01", end_date |-> "2025-06-30"]
Def456 == [allocation_id |-> "def456", project_id |-> "apollo",
           email |-> "b@x.com", hours |-> 10,
           start_date |-> "2025-03-01", end_date |-> "2025-09-30"]

Call(t, p) == [event_type |-> t, payload |-> p]

PersonCalls ==
    { Call("PERSON_ADDED", Ann),
      Call("PERSON_ADDED", Bob),
      Call("PERSON_EDITED", [email |-> "a@x.com", capacity |-> 50]),
      Call("PERSON_EDITED", EmptyDict),
      Call("PERSON_DELETED", [email |-> "a@x.com"]),
      Call("PERSON_OFFBOARDED",
           [email |-> "a@x.com", exit_date |-> "2025-12-31"]),
      Call("PERSON_OFFBOARDED", [email |-> "a@x.com"]),
      Call("UNAVAILABILITY_ADDED",
           [email |-> "a@x.com", start_date |-> "2025-07-01",
            end_date |-> "2025-07-05"]) }

ProjectCalls ==
    { Call("PROJECT_ADDED", Apollo),
      Call("PROJECT_EDITED", [project_id |-> "apollo", status |-> "Lost"]),
      Call("PROJECT_DELETED", [project_id |-> "apollo"]) }

AllocationCalls ==
    { Call("ALLOCATION_ADDED", Abc123),
      Call("ALLOCATION_ADDED", Def456),
      Call("ALLOCATION_REMOVED", [allocation_id |-> "abc123"]),
      Call("ALLOCATION_REMOVED", EmptyDict) }

UnknownCalls ==
    { Call("SKILL_ENDORSED",
           [email |-> "a@x.com", event_id |-> "forged", timestamp |-> 0]) }

Calls == PersonCalls \cup ProjectCalls \cup AllocationCalls \cup UnknownCalls

\* The inputs of the specification with crashes and I/O errors.
FaultCalls ==
    { Call("PERSON_ADDED", Ann),
      Call("PERSON_EDITED", [email |-> "a@x.com", capacity |-> 50]),
      Call("PERSON_EDITED", EmptyDict),
      Call("PROJECT_ADDED", Apollo),
      Call("ALLOCATION_ADDED", Abc123) }

\* The inputs of the specification with readers.
LoadCalls ==
    { Call("PERSON_ADDED", Ann),
      Call("PROJECT_ADDED", Apollo),
      Call("ALLOCATION_ADDED", Abc123) }

KnownTypes ==
    { "PERSON_ADDED", "PERSON_EDITED", "PERSON_DELETED", "PERSON_OFFBOARDED",
      "UNAVAILABILITY_ADDED", "PROJECT_ADDED", "PROJECT_EDITED",
      "PROJECT_DELETED", "ALLOCATION_ADDED", "ALLOCATION_REMOVED" }

(***************************************************************************)
(* append_event and rebuild_state, step by step.                           *)
(***************************************************************************)
NoEvent == [event_id |-> None, timestamp |-> 0, event_type |-> None,
            payload |-> EmptyDict]

\* An identifier drawn once, when the module is loaded.
uuid4Once(n) == "1"

\* str(uuid.uuid4()): an identifier no earlier call has drawn.
uuid4(n) == ToString(n)

\* Lines 22-27: the event dictionary.
NewEvent(n, event_type, payload) ==
    [event_id |-> uuid4(n), timestamp |-> n, event_type |-> event_type,
     payload |-> payload]

\* The file after a "w"-mode open and write.
JournalOverwritten(chunks, ev) == <<FullChunk(ev)>>

\* The file when the line is still in the buffer as the rebuild starts.
JournalNotYetWritten(chunks, ev) == chunks

\* A write at the offset of the last record instead of the end of file.
JournalWrittenOverLast(chunks, ev) ==
    IF chunks = <<>> THEN <<FullChunk(ev)>>
    ELSE [chunks EXCEPT ![Len(chunks)] = FullChunk(ev)]

\* A write that leaves out an event equal to the last one recorded.
JournalAfterWriteDeduped(chunks, ev) ==
    IF /\ chunks # <<>>
       /\ chunks[Len(chunks)].ev.event_type = ev.event_type
       /\ chunks[Len(chunks)].ev.payload = ev.payload
    THEN chunks
    ELSE Append(chunks, FullChunk(ev))

\* Lines 30-31: the file after "a"-mode open and write.
JournalAfterWrite(chunks, ev) == Append(chunks, FullChunk(ev))

\* append_event ending in "return event['event_id']".
AppendEventReturnsId(ev) == ev.event_id

\* append_event has no return statement.
AppendEventReturn(ev) == None

\* The three snapshot files together.
Snapshots(people, projects, allocations) ==
    [people |-> people, projects |-> projects, allocations |-> allocations]

NoSnapshots == Snapshots(Absent, Absent, Absent)

\* The second process between two calls.
PeerIdle == [pc |-> "idle", event |-> NoEvent, outcome |-> "none",
             people |-> EmptyDict, projects |-> EmptyDict,
             allocations |-> EmptyDict]

\* No reader has called load_state yet.
NotLoaded == [file |-> None, raised |-> None, dict |-> EmptyDict]

Init ==
    /\ journal_exists = FALSE
    /\ journal = <<>>
    /\ people_file = Absent
    /\ projects_file = Absent
    /\ allocations_file = Absent
    /\ state_people = EmptyDict
    /\ state_projects = EmptyDict
    /\ state_allocations = EmptyDict
    /\ pc = "idle"
    /\ caller = "none"
    /\ event = NoEvent
    /\ outcome = "none"
    /\ ret = None
    /\ faults = 0
    /\ before = NoSnapshots
    /\ loaded = NotLoaded
    /\ peer = PeerIdle

\* append_event, lines 22-31: build the event and write its line, in a
\* journal that holds fewer than bound records.
AppendEventWriteWithin(c, bound) ==
    /\ pc = "idle"
    /\ Len(journal) < bound
    /\ LET ev == NewEvent(Len(journal) + 1, c.event_type, c.payload)
       IN /\ event' = ev
          /\ journal' = JournalAfterWrite(journal, ev)
    /\ journal_exists' = TRUE
    /\ pc' = "rebuild"
    /\ caller' = "append_event"
    /\ ret' = None
    /\ before' = Snapshots(people_file, projects_file, allocations_file)
    /\ UNCHANGED <<people_file, projects_file, allocations_file,
                   state_people, state_projects, state_allocations,
                   outcome, faults, loaded, peer>>

AppendEventWrite(c) == AppendEventWriteWithin(c, MaxJournal)

\* A rebuild that consumes the journal it is about to replay.
RebuildStateCallConsuming ==
    /\ pc = "idle"
    /\ pc' = "rebuild"
    /\ caller' = "rebuild_state"
    /\ event' = NoEvent
    /\ ret' = None
    /\ journal' = <<>>
    /\ before' = Snapshots(people_file, projects_file, allocations_file)
    /\ UNCHANGED <<journal_exists, people_file, projects_file,
                   allocations_file, state_people, state_projects,
                   state_allocations, outcome, faults, loaded, peer>>

\* rebuild_state called on its own.
RebuildStateCall ==
    /\ pc = "idle"
    /\ pc' = "rebuild"
    /\ caller' = "rebuild_state"
    /\ event' = NoEvent
    /\ ret' = None
    /\ before' = Snapshots(people_file, projects_file, allocations_file)
    /\ UNCHANGED <<journal_exists, journal, people_file, projects_file,
                   allocations_file, state_people, state_projects,
                   state_allocations, outcome, faults, loaded, peer>>

\* A replay that misses the last line of the journal.
ReplayWithoutLast(exists, chunks) ==
    IF exists /\ chunks # <<>>
    THEN Reduce(Lines(SubSeq(chunks, 1, Len(chunks) - 1)))
    ELSE Blank

\* A replay that needs the journal file to be there.
ReplayStrict(exists, chunks) ==
    IF exists THEN Reduce(Lines(chunks))
    ELSE Raise(Blank, "FileNotFoundError")

\* What lines 44-105 compute: three blank dictionaries when the journal does
\* not exist, the fold of its lines otherwise.
Replay(exists, chunks) == IF exists THEN Reduce(Lines(chunks)) ELSE Blank

\* rebuild_state, lines 44-105: read and fold the journal.  An exception
\* leaves rebuild_state, and append_event with it, before any snapshot is
\* written.
RebuildRead ==
    /\ pc = "rebuild"
    /\ LET s == Replay(journal_exists, journal)
       IN IF s.err # "none"
          THEN /\ pc' = "idle"
               /\ outcome' = s.err
               /\ before' = NoSnapshots
               /\ UNCHANGED <<state_people, state_projects,
                              state_allocations>>
          ELSE /\ pc' = "save_people"
               /\ state_people' = s.people
               /\ state_projects' = s.projects
               /\ state_allocations' = s.allocations
               /\ UNCHANGED <<outcome, before>>
    /\ UNCHANGED <<journal_exists, journal, people_file, projects_file,
                   allocations_file, caller, event, ret, faults,
                   loaded, peer>>

\* _save_state: open "w" and json.dump.
_save_state(data) == JsonFile(data)

\* Line 108 (line 50 without a journal).
SavePeople ==
    /\ pc = "save_people"
    /\ people_file' = _save_state(state_people)
    /\ pc' = "save_projects"
    /\ UNCHANGED <<journal_exists, journal, projects_file, allocations_file,
                   state_people, state_projects, state_allocations,
                   caller, event, outcome, ret, faults, before, loaded, peer>>

\* Line 109 (line 51 without a journal).
SaveProjects ==
    /\ pc = "save_projects"
    /\ projects_file' = _save_state(state_projects)
    /\ pc' = "save_allocations"
    /\ UNCHANGED <<journal_exists, journal, people_file, allocations_file,
                   state_people, state_projects, state_allocations,
                   caller, event, outcome, ret, faults, before, loaded, peer>>

\* Line 110 (line 52 without a journal), and the return to the caller.
SaveAllocations ==
    /\ pc = "save_allocations"
    /\ allocations_file' = _save_state(state_allocations)
    /\ pc' = "idle"
    /\ outcome' = "returned"
    /\ ret' = IF caller = "append_event" THEN AppendEventReturn(event)
              ELSE None
    /\ state_people' = EmptyDict
    /\ state_projects' = EmptyDict
    /\ state_allocations' = EmptyDict
    /\ before' = NoSnapshots
    /\ UNCHANGED <<journal_exists, journal, people_file, projects_file,
                   caller, event, faults, loaded, peer>>

Next ==
    \/ \E c \in Calls : AppendEventWrite(c)
    \/ RebuildStateCall
    \/ RebuildRead
    \/ SavePeople
    \/ SaveProjects
    \/ SaveAllocations

Spec == Init /\ [][Next]_vars

(***************************************************************************)
(* Crashes and I/O errors.  A write to the journal that is cut short       *)
(* leaves nothing, part of the JSON text, or all of it without the         *)
(* newline; f.open("w") of _save_state empties the snapshot before         *)
(* json.dump writes it, so a cut there leaves the old file (open failed or *)
(* not reached) or a truncated one.  A crash ends the process; an OSError  *)
(* is raised to the caller of append_event.                                *)
(***************************************************************************)
CutChunk(kind, ev) == IF kind = "part" THEN PartChunk(ev) ELSE NoNlChunk(ev)

\* Lines 30-31 cut short.
AppendEventCut(c, kind, how) ==
    /\ pc = "idle"
    /\ faults < MaxFaults
    /\ Len(journal) < MaxJournal
    /\ LET ev == NewEvent(Len(journal) + 1, c.event_type, c.payload)
       IN /\ event' = ev
          /\ journal' = IF kind = "nothing" THEN journal
                        ELSE Append(journal, CutChunk(kind, ev))
    /\ journal_exists' = (journal_exists \/ kind # "nothing"
                            \/ how = "crashed")
    /\ caller' = "append_event"
    /\ outcome' = how
    /\ ret' = None
    /\ faults' = faults + 1
    /\ UNCHANGED <<pc, people_file, projects_file, allocations_file,
                   state_people, state_projects, state_allocations,
                   before, loaded, peer>>

\* Lines 108-110 (50-52) cut short at the file about to be written.
SaveCut(left, how) ==
    /\ pc \in {"save_people", "save_projects", "save_allocations"}
    /\ faults < MaxFaults
    /\ people_file' = IF pc = "save_people" /\ left = "truncated"
                      THEN Truncated ELSE people_file
    /\ projects_file' = IF pc = "save_projects" /\ left = "truncated"
                        THEN Truncated ELSE projects_file
    /\ allocations_file' = IF pc = "save_allocations" /\ left = "truncated"
                           THEN Truncated ELSE allocations_file
    /\ pc' = "idle"
    /\ outcome' = how
    /\ state_people' = EmptyDict
    /\ state_projects' = EmptyDict
    /\ state_allocations' = EmptyDict
    /\ faults' = faults + 1
    /\ before' = NoSnapshots
    /\ UNCHANGED <<journal_exists, journal, caller, event, ret, loaded, peer>>

NextFault ==
    \/ \E c \in FaultCalls : AppendEventWrite(c)
    \/ RebuildStateCall
    \/ RebuildRead
    \/ SavePeople
    \/ SaveProjects
    \/ SaveAllocations
    \/ \E c \in FaultCalls, kind \in {"nothing", "part", "nonl"},
          how \in {"crashed", "OSError"} : AppendEventCut(c, kind, how)
    \/ \E left \in {"untouched", "truncated"},
          how \in {"crashed", "OSError"} : SaveCut(left, how)

SpecFault == Init /\ [][NextFault]_vars

(***************************************************************************)
(* Readers.  A command or a report calls load_state on one snapshot; it    *)
(* may do so in another process while a rebuild is under way.  open() can  *)
(* fail with FileNotFoundError (no file) or with another OSError such as   *)
(* PermissionError (a file that is there and may not be read); json.load   *)
(* fails with JSONDecodeError on a truncated file.  load_state catches the *)
(* first and the last only.                                                *)
(***************************************************************************)
SnapshotNames == {"people", "projects", "allocations"}

FileOf(name) ==
    CASE name = "people" -> people_file
      [] name = "projects" -> projects_file
      [] OTHER -> allocations_file

\* The exception open() or json.load raises on a snapshot, None for none.
ReadError(file, access) ==
    IF file.kind = "absent" THEN "FileNotFoundError"
    ELSE IF access = "denied" THEN "PermissionError"
    ELSE IF file.kind = "json" THEN None
    ELSE "JSONDecodeError"

\* Lines 120-125: the two exceptions of line 124 give {}, any other leaves
\* load_state.
LoadResult(name, file, access) ==
    LET e == ReadError(file, access)
    IN IF e \in {None, "FileNotFoundError", "JSONDecodeError"}
       THEN [file |-> name, raised |-> None, dict |-> load_state(file)]
       ELSE [file |-> name, raised |-> e, dict |-> EmptyDict]

LoadState(name, access) ==
    /\ loaded' = LoadResult(name, FileOf(name), access)
    /\ UNCHANGED <<journal_exists, journal, people_file, projects_file,
                   allocations_file, state_people, state_projects,
                   state_allocations, pc, caller, event, outcome, ret,
                   faults, before, peer>>

NextLoad ==
    \/ \E c \in LoadCalls : AppendEventWrite(c)
    \/ RebuildStateCall
    \/ RebuildRead
    \/ SavePeople
    \/ SaveProjects
    \/ SaveAllocations
    \/ \E c \in LoadCalls, kind \in {"nothing", "part", "nonl"},
          how \in {"crashed", "OSError"} : AppendEventCut(c, kind, how)
    \/ \E left \in {"untouched", "truncated"},
          how \in {"crashed", "OSError"} : SaveCut(left, how)
    \/ \E name \in SnapshotNames, access \in {"ok", "denied"} :
          LoadState(name, access)

SpecLoad == Init /\ [][NextLoad]_vars

(***************************************************************************)
(* The CLI commands, one at a time.  A command loads the snapshots, checks *)
(* what the user typed against them, builds a payload and calls            *)
(* append_event; what the user types is drawn from small sets.  The        *)
(* payloads are cut down to the fields the checks, the generators and the  *)
(* reducer look at.                                                        *)
(***************************************************************************)
\* dict.get(key, default).
Get(d, k, default) == IF Has(d, k) THEN d[k] ELSE default

\* The names the user types, and what name.strip().split()[0][:4] (or [:6])
\* .capitalize() makes of each: all are one word of at most six letters.
BaseCode(name) ==
    CASE name = "Ann" -> "Ann"
      [] name = "Apollo" -> "Apollo"
      [] name = "Zeus" -> "Zeus"
      [] OTHER -> "CONS"

\* f"{base_code}{counter}"; the bare base code for counter 0.
Suffixed(base, n) == IF n = 0 THEN base ELSE base \o ToString(n)

\* str.upper() on the codes the generators and the commands produce: a base
\* code with at most one digit behind it, or a code already in upper case.
Upper(code) ==
    CASE code = "Ann" -> "ANN"
      [] code = "Ann1" -> "ANN1"
      [] code = "Ann2" -> "ANN2"
      [] code = "Ann3" -> "ANN3"
      [] code = "Apollo" -> "APOLLO"
      [] code = "Apollo1" -> "APOLLO1"
      [] code = "Apollo2" -> "APOLLO2"
      [] code = "Apollo3" -> "APOLLO3"
      [] code = "Zeus" -> "ZEUS"
      [] code = "Zeus1" -> "ZEUS1"
      [] code = "Zeus2" -> "ZEUS2"
      [] code = "Zeus3" -> "ZEUS3"
      [] OTHER -> code

\* Line 23 (40) of utils.py: the codes already taken, in upper case.
ExistingCodes(records) ==
    { Upper(records[k]["short_code"]) :
          k \in {x \in DOMAIN records : Has(records[x], "short_code")} }

RECURSIVE ShortCodeFrom(_, _, _)
\* The while loop of generate_short_code and generate_project_short_code
\* (for a base code of at most seven letters the two build the same string).
ShortCodeFrom(base, n, existing) ==
    IF Upper(Suffixed(base, n)) \in existing
    THEN ShortCodeFrom(base, n + 1, existing)
    ELSE Suffixed(base, n)

generate_short_code(name, existing_people) ==
    ShortCodeFrom(BaseCode(name), 0, ExistingCodes(existing_people))

generate_project_short_code(name, existing_projects) ==
    ShortCodeFrom(BaseCode(name), 0, ExistingCodes(existing_projects))

\* re.sub(r'[^a-z0-9]+', '-', name.lower()).strip('-'), "project" if empty.
Slug(name) ==
    CASE name = "Apollo" -> "apollo"
      [] name = "Zeus" -> "zeus"
      [] OTHER -> "project"

RECURSIVE ProjectIdFrom(_, _, _)
\* The while loop of generate_project_id: base, base-2, base-3, ...
ProjectIdFrom(base_id, counter, existing_projects) ==
    LET project_id == IF counter = 1 THEN base_id
                      ELSE base_id \o "-" \o ToString(counter)
    IN IF project_id \in DOMAIN existing_projects
       THEN ProjectIdFrom(base_id, counter + 1, existing_projects)
       ELSE project_id

generate_project_id(name, existing_projects) ==
    ProjectIdFrom(Slug(name), 1, existing_projects)

\* What the user can type.
Emails == {"a@x.com"}
PersonName(email) == "Ann"
ProjectNames == {"Apollo"}
NewProjectName == "Zeus"

\* uuid.uuid4().hex[:8] of allocate_person: an id no earlier call has drawn.
uuid4hex(n) == "a" \o ToString(n)

\* people add.
AddPersonCalls ==
    LET people == load_state(people_file)
    IN { Call("PERSON_ADDED",
              [email |-> email, name |-> PersonName(email),
               short_code |-> generate_short_code(PersonName(email), people),
               capacity |-> 40, skill |-> <<"Go:5">>, is_active |-> TRUE]) :
           email \in { e \in Emails :
                         ~(e \in DOMAIN people
                           /\ Get(people[e], "is_active", TRUE)) } }

\* people edit: the user keeps every default but the weekly hours.
EditPersonCalls ==
    LET people == load_state(people_file)
    IN { Call("PERSON_EDITED",
              [email |-> email, name |-> people[email]["name"],
               short_code |->
                   Upper(Get(people[email], "short_code",
                             generate_short_code(people[email]["name"],
                                                 people))),
               capacity |-> 50,
               skill |-> Get(people[email], "skill", <<>>)]) :
           email \in { e \in Emails :
                         e \in DOMAIN people
                         /\ Get(people[e], "is_active", TRUE) } }

\* people timeoff.
AddTimeoffCalls ==
    LET people == load_state(people_file)
    IN { Call("UNAVAILABILITY_ADDED",
              [email |-> email, start_date |-> "2025-07-01",
               end_date |-> "2025-07-05", reason |-> "PTO"]) :
           email \in Emails \cap DOMAIN people }

\* people offboard.
OffboardPersonCalls ==
    LET people == load_state(people_file)
    IN { Call("PERSON_OFFBOARDED",
              [email |-> email, exit_date |-> "2025-12-31"]) :
           email \in Emails \cap DOMAIN people }

\* people delete, confirmed.
DeletePersonCalls ==
    LET people == load_state(people_file)
    IN { Call("PERSON_DELETED", [email |-> email]) :
           email \in Emails \cap DOMAIN people }

\* project add.
AddProjectCalls ==
    LET projects == load_state(projects_file)
    IN { Call("PROJECT_ADDED",
              [project_id |-> generate_project_id(name, projects),
               name |-> name,
               short_code |-> generate_project_short_code(name, projects),
               status |-> "Active", probability |-> 100,
               required_skills |-> <<>>]) :
           name \in ProjectNames }

\* The projects a command lists: those not deleted.
ListedProjects(projects) ==
    { pid \in DOMAIN projects :
          Get(projects[pid], "status", None) # "Deleted" }

\* project edit: the user renames the project and keeps the other defaults.
EditProjectCalls ==
    LET projects == load_state(projects_file)
    IN { Call("PROJECT_EDITED",
              [project_id |-> pid, name |-> NewProjectName,
               short_code |->
                   Upper(Get(projects[pid], "short_code",
                             generate_project_short_code(NewProjectName,
                                                         projects))),
               status |-> Get(projects[pid], "status", "Proposed"),
               probability |-> Get(projects[pid], "probability", 100),
               required_skills |->
                   Get(projects[pid], "required_skills", <<>>)]) :
           pid \in ListedProjects(projects) }

\* project delete, confirmed.
DeleteProjectCalls ==
    LET projects == load_state(projects_file)
    IN { Call("PROJECT_DELETED", [project_id |-> pid]) :
           pid \in ListedProjects(projects) }

\* The dates of the model as day numbers: ISO dates compare as strings the
\* way these numbers compare.
DateNumber(d) ==
    CASE d = "2024-12-31" -> 0
      [] d = "2025-01-01" -> 1
      [] d = "2025-03-01" -> 60
      [] d = "2025-06-30" -> 181
      [] d = "2025-09-30" -> 273
      [] d = "2026-01-01" -> 366

\* (strptime(start) + timedelta(days=365)).date().isoformat()
PlusOneYear(start) ==
    CHOOSE d \in {"2024-12-31", "2025-01-01", "2025-03-01", "2025-06-30",
                  "2025-09-30", "2026-01-01"} :
        DateNumber(d) = DateNumber(start) + 365

\* What the user types at "End Date": nothing, a later day, an earlier day.
EndDatesTyped == {"", "2025-06-30", "2024-12-31"}

\* project allocate: a listed project and an active consultant, picked by
\* their short codes, and the end date typed; no check compares the dates.
AllocatePersonCalls ==
    LET projects == load_state(projects_file)
        people == load_state(people_file)
    IN { Call("ALLOCATION_ADDED",
              [allocation_id |-> uuid4hex(Len(journal) + 1),
               project_id |-> x[1], email |-> x[2], hours |-> 20,
               start_date |-> "2025-01-01",
               end_date |-> IF x[3] = "" THEN PlusOneYear("2025-01-01")
                            ELSE x[3]]) :
           x \in ListedProjects(projects)
                   \X { e \in DOMAIN people :
                          Get(people[e], "is_active", TRUE) }
                   \X EndDatesTyped }

\* project unallocate.
UnallocatePersonCalls ==
    LET allocs == load_state(allocations_file)
    IN { Call("ALLOCATION_REMOVED", [allocation_id |-> aid]) :
           aid \in DOMAIN allocs }

\* migrate_all_codes, one turn of its loops: an entry whose short code is
\* not the one the generator gives gets an edit event.
MigrateCalls ==
    LET people == load_state(people_file)
        projects == load_state(projects_file)
    IN { Call("PERSON_EDITED",
              [email |-> e,
               short_code |->
                   generate_short_code(Get(people[e], "name", "Unknown"),
                                       people)]) :
           e \in { x \in DOMAIN people :
                     Get(people[x], "short_code", None)
                         # generate_short_code(
                               Get(people[x], "name", "Unknown"), people) } }
       \cup
       { Call("PROJECT_EDITED",
              [project_id |-> pid,
               short_code |->
                   generate_project_short_code(
                       Get(projects[pid], "name", "Unknown Project"),
                       projects)]) :
           pid \in { x \in DOMAIN projects :
                       Get(projects[x], "short_code", None)
                           # generate_project_short_code(
                                 Get(projects[x], "name", "Unknown Project"),
                                 projects) } }

add_person ==
    \E c \in AddPersonCalls : AppendEventWriteWithin(c, MaxCliJournal)
edit_person ==
    \E c \in EditPersonCalls : AppendEventWriteWithin(c, MaxCliJournal)
add_timeoff ==
    \E c \in AddTimeoffCalls : AppendEventWriteWithin(c, MaxCliJournal)
offboard_person ==
    \E c \in OffboardPersonCalls : AppendEventWriteWithin(c, MaxCliJournal)
delete_person ==
    \E c \in DeletePersonCalls : AppendEventWriteWithin(c, MaxCliJournal)
add_project ==
    \E c \in AddProjectCalls : AppendEventWriteWithin(c, MaxCliJournal)
edit_project ==
    \E c \in EditProjectCalls : AppendEventWriteWithin(c, MaxCliJournal)
delete_project ==
    \E c \in DeleteProjectCalls : AppendEventWriteWithin(c, MaxCliJournal)
allocate_person ==
    \E c \in AllocatePersonCalls : AppendEventWriteWithin(c, MaxCliJournal)
unallocate_person ==
    \E c \in UnallocatePersonCalls : AppendEventWriteWithin(c, MaxCliJournal)
migrate_all_codes ==
    \E c \in MigrateCalls : AppendEventWriteWithin(c, MaxCliJournal)

\* A listing that writes an empty snapshot where it finds none.
list_or_report_creating ==
    /\ pc = "idle"
    /\ \E name \in {"people", "projects"} :
          /\ loaded' = LoadResult(name, FileOf(name), "ok")
          /\ people_file' = IF name = "people" /\ people_file = Absent
                            THEN JsonFile(EmptyDict) ELSE people_file
          /\ projects_file' = IF name = "projects" /\ projects_file = Absent
                              THEN JsonFile(EmptyDict) ELSE projects_file
    /\ UNCHANGED <<journal_exists, journal, allocations_file, state_people,
                   state_projects, state_allocations, pc, caller, event,
                   outcome, ret, faults, before, peer>>

\* people list, project list and the reports: they load and print.
list_or_report ==
    /\ pc = "idle"
    /\ \E name \in {"people", "projects"} : LoadState(name, "ok")

\* Every call a command can make in the current state.
ProjectCliCalls ==
    AddProjectCalls \cup EditProjectCalls \cup DeleteProjectCalls

\* A project command whose append_event dies on the journal write.
CommandCut ==
    \E c \in ProjectCliCalls : AppendEventCut(c, "part", "crashed")

NextCli ==
    \/ add_person
    \/ edit_person
    \/ add_timeoff
    \/ offboard_person
    \/ delete_person
    \/ add_project
    \/ edit_project
    \/ delete_project
    \/ allocate_person
    \/ unallocate_person
    \/ migrate_all_codes
    \/ list_or_report
    \/ RebuildRead
    \/ SavePeople
    \/ SaveProjects
    \/ SaveAllocations

SpecCli == Init /\ [][NextCli]_vars

\* The project commands with crashes: a command can die on its journal
\* write or on one of its three saves.
NextCliCrash ==
    \/ add_project
    \/ edit_project
    \/ delete_project
    \/ RebuildRead
    \/ SavePeople
    \/ SaveProjects
    \/ SaveAllocations
    \/ CommandCut
    \/ \E left \in {"untouched", "truncated"} : SaveCut(left, "crashed")

SpecCliCrash == Init /\ [][NextCliCrash]_vars

\* The staffing commands with crashes: a person, a project, an allocation
\* and its removal, where a command can die on one of its three saves.
StaffCalls ==
    AddPersonCalls \cup AddProjectCalls \cup AllocatePersonCalls
        \cup UnallocatePersonCalls

NextStaffCrash ==
    \/ \E c \in StaffCalls : AppendEventWriteWithin(c, MaxStaffJournal)
    \/ RebuildRead
    \/ SavePeople
    \/ SaveProjects
    \/ SaveAllocations
    \/ SaveCut("untouched", "crashed")

SpecStaffCrash == Init /\ [][NextStaffCrash]_vars

(***************************************************************************)
(* Two processes.  A second process runs append_event on the same files    *)
(* while the first one does; nothing in ledger.py takes a lock.  The       *)
(* journal is opened in "a" mode, so each write lands at the end of the    *)
(* file; a line can reach the file in one write or in two (a text longer   *)
(* than the buffer), and the other process can read or write in between.   *)
(***************************************************************************)
TwoCalls == { Call("PERSON_ADDED", Ann), Call("PROJECT_ADDED", Apollo) }

\* Lines 22-31 in the second process, the line written at once.
PeerWrite(c) ==
    /\ peer.pc = "idle"
    /\ Len(journal) < MaxJournal
    /\ LET ev == NewEvent(Len(journal) + 1, c.event_type, c.payload)
       IN /\ journal' = JournalAfterWrite(journal, ev)
          /\ peer' = [peer EXCEPT !.pc = "rebuild", !.event = ev]
    /\ journal_exists' = TRUE
    /\ UNCHANGED <<people_file, projects_file, allocations_file,
                   state_people, state_projects, state_allocations, pc,
                   caller, event, outcome, ret, faults, before, loaded>>

\* Line 31 in the second process: the first part of the line.
PeerWritePart(c) ==
    /\ peer.pc = "idle"
    /\ Len(journal) < MaxJournal
    /\ LET ev == NewEvent(Len(journal) + 1, c.event_type, c.payload)
       IN /\ journal' = Append(journal, PartChunk(ev))
          /\ peer' = [peer EXCEPT !.pc = "writing", !.event = ev]
    /\ journal_exists' = TRUE
    /\ UNCHANGED <<people_file, projects_file, allocations_file,
                   state_people, state_projects, state_allocations, pc,
                   caller, event, outcome, ret, faults, before, loaded>>

\* Line 31 in the second process: the rest of the line, behind whatever the
\* file ends with by now.
PeerWriteRest ==
    /\ peer.pc = "writing"
    /\ journal' = IF journal[Len(journal)] = PartChunk(peer.event)
                  THEN [journal EXCEPT ![Len(journal)] =
                                           FullChunk(peer.event)]
                  ELSE Append(journal, RestChunk(peer.event))
    /\ peer' = [peer EXCEPT !.pc = "rebuild"]
    /\ UNCHANGED <<journal_exists, people_file, projects_file,
                   allocations_file, state_people, state_projects,
                   state_allocations, pc, caller, event, outcome, ret,
                   faults, before, loaded>>

\* Lines 44-105 in the second process.
PeerRebuildRead ==
    /\ peer.pc = "rebuild"
    /\ LET s == Replay(journal_exists, journal)
       IN peer' = IF s.err # "none"
                  THEN [peer EXCEPT !.pc = "idle", !.outcome = s.err]
                  ELSE [peer EXCEPT !.pc = "save_people",
                                    !.people = s.people,
                                    !.projects = s.projects,
                                    !.allocations = s.allocations]
    /\ UNCHANGED <<journal_exists, journal, people_file, projects_file,
                   allocations_file, state_people, state_projects,
                   state_allocations, pc, caller, event, outcome, ret,
                   faults, before, loaded>>

\* Line 108 in the second process.
PeerSavePeople ==
    /\ peer.pc = "save_people"
    /\ people_file' = _save_state(peer.people)
    /\ peer' = [peer EXCEPT !.pc = "save_projects"]
    /\ UNCHANGED <<journal_exists, journal, projects_file, allocations_file,
                   state_people, state_projects, state_allocations, pc,
                   caller, event, outcome, ret, faults, before, loaded>>

\* Line 109 in the second process.
PeerSaveProjects ==
    /\ peer.pc = "save_projects"
    /\ projects_file' = _save_state(peer.projects)
    /\ peer' = [peer EXCEPT !.pc = "save_allocations"]
    /\ UNCHANGED <<journal_exists, journal, people_file, allocations_file,
                   state_people, state_projects, state_allocations, pc,
                   caller, event, outcome, ret, faults, before, loaded>>

\* Line 110 in the second process, and its return.
PeerSaveAllocations ==
    /\ peer.pc = "save_allocations"
    /\ allocations_file' = _save_state(peer.allocations)
    /\ peer' = [peer EXCEPT !.pc = "idle", !.outcome = "returned",
                            !.people = EmptyDict, !.projects = EmptyDict,
                            !.allocations = EmptyDict]
    /\ UNCHANGED <<journal_exists, journal, people_file, projects_file,
                   state_people, state_projects, state_allocations, pc,
                   caller, event, outcome, ret, faults, before, loaded>>

NextTwo ==
    \/ \E c \in TwoCalls : AppendEventWrite(c)
    \/ RebuildRead
    \/ SavePeople
    \/ SaveProjects
    \/ SaveAllocations
    \/ \E c \in TwoCalls : PeerWrite(c)
    \/ \E c \in TwoCalls : PeerWritePart(c)
    \/ PeerWriteRest
    \/ PeerRebuildRead
    \/ PeerSavePeople
    \/ PeerSaveProjects
    \/ PeerSaveAllocations

SpecTwo == Init /\ [][NextTwo]_vars

(***************************************************************************)
(* Events whose order matters: two edits of the same field of the same     *)
(* person, and the adding and the removing of the same allocation.         *)
(***************************************************************************)
OrderCalls ==
    { Call("PERSON_ADDED", Ann),
      Call("PERSON_EDITED", [email |-> "a@x.com", capacity |-> 50]),
      Call("PERSON_EDITED", [email |-> "a@x.com", capacity |-> 60]),
      Call("ALLOCATION_ADDED", Abc123),
      Call("ALLOCATION_REMOVED", [allocation_id |-> "abc123"]) }

NextOrder ==
    \/ \E c \in OrderCalls : AppendEventWrite(c)
    \/ RebuildRead
    \/ SavePeople
    \/ SaveProjects
    \/ SaveAllocations

SpecOrder == Init /\ [][NextOrder]_vars

(***************************************************************************)
(* Two commands at once.  add_person and add_project load the snapshot,    *)
(* check or generate the key, prompt for the other fields and only then    *)
(* call append_event.  The second process does this in two steps, so that  *)
(* a command of the first process can run between its load and its append. *)
(***************************************************************************)
\* The second user gives the project another win probability.
PeerAddProjectCalls ==
    { Call(c.event_type, [c.payload EXCEPT !["probability"] = 50]) :
        c \in AddProjectCalls }

\* The second user gives the person other weekly hours.
PeerAddPersonCalls ==
    { Call(c.event_type, [c.payload EXCEPT !["capacity"] = 20]) :
        c \in AddPersonCalls }

\* add_person up to its last prompt (people.py 14-44): the payload is built
\* from the snapshot as it is now.
PeerAddPersonLoad ==
    /\ peer.pc = "idle"
    /\ \E c \in PeerAddPersonCalls :
          peer' = [peer EXCEPT !.pc = "checked",
                               !.event = [NoEvent EXCEPT
                                              !.event_type = c.event_type,
                                              !.payload = c.payload]]
    /\ UNCHANGED <<journal_exists, journal, people_file, projects_file,
                   allocations_file, state_people, state_projects,
                   state_allocations, pc, caller, event, outcome, ret,
                   faults, before, loaded>>

\* add_project up to its last prompt (project.py 14-31).
PeerAddProjectLoad ==
    /\ peer.pc = "idle"
    /\ \E c \in PeerAddProjectCalls :
          peer' = [peer EXCEPT !.pc = "checked",
                               !.event = [NoEvent EXCEPT
                                              !.event_type = c.event_type,
                                              !.payload = c.payload]]
    /\ UNCHANGED <<journal_exists, journal, people_file, projects_file,
                   allocations_file, state_people, state_projects,
                   state_allocations, pc, caller, event, outcome, ret,
                   faults, before, loaded>>

\* A command that looks at the snapshot again before it appends, and gives
\* up when the key is taken by then.
PeerCommandAppendChecked ==
    /\ peer.pc = "checked"
    /\ Len(journal) < MaxCliJournal
    /\ LET ev == NewEvent(Len(journal) + 1, peer.event.event_type,
                          peer.event.payload)
           taken == IF ev.event_type = "PERSON_ADDED"
                    THEN ev.payload["email"]
                             \in DOMAIN load_state(people_file)
                    ELSE ev.payload["project_id"]
                             \in DOMAIN load_state(projects_file)
       IN IF taken
          THEN /\ peer' = [peer EXCEPT !.pc = "idle", !.outcome = "exit"]
               /\ UNCHANGED <<journal, journal_exists>>
          ELSE /\ journal' = JournalAfterWrite(journal, ev)
               /\ peer' = [peer EXCEPT !.pc = "rebuild", !.event = ev]
               /\ journal_exists' = TRUE
    /\ UNCHANGED <<people_file, projects_file, allocations_file,
                   state_people, state_projects, state_allocations, pc,
                   caller, event, outcome, ret, faults, before, loaded>>

\* The call of append_event that ends the command (people.py 45,
\* project.py 33), lines 22-31 of ledger.py: the payload built at the load.
PeerCommandAppend ==
    /\ peer.pc = "checked"
    /\ Len(journal) < MaxCliJournal
    /\ LET ev == NewEvent(Len(journal) + 1, peer.event.event_type,
                          peer.event.payload)
       IN /\ journal' = JournalAfterWrite(journal, ev)
          /\ peer' = [peer EXCEPT !.pc = "rebuild", !.event = ev]
    /\ journal_exists' = TRUE
    /\ UNCHANGED <<people_file, projects_file, allocations_file,
                   state_people, state_projects, state_allocations, pc,
                   caller, event, outcome, ret, faults, before, loaded>>

NextRace ==
    \/ add_person
    \/ add_project
    \/ RebuildRead
    \/ SavePeople
    \/ SaveProjects
    \/ SaveAllocations
    \/ PeerAddPersonLoad
    \/ PeerAddProjectLoad
    \/ PeerCommandAppend
    \/ PeerRebuildRead
    \/ PeerSavePeople
    \/ PeerSaveProjects
    \/ PeerSaveAllocations

SpecRace == Init /\ [][NextRace]_vars

(***************************************************************************)
(* Properties.                                                             *)
(***************************************************************************)
JL == Lines(journal)

\* The state of the fold after the first k lines of a journal.
After(L, k) == Reduce(SubSeq(L, 1, k))

\* A journal without its i-th line.
Without(L, i) == SubSeq(L, 1, i - 1) \o SubSeq(L, i + 1, Len(L))

TypeOf(line) == JsonLoads(line).event_type
PayloadOf(line) == JsonLoads(line).payload

AppendReturned ==
    pc = "idle" /\ caller = "append_event" /\ outcome = "returned"

SnapshotsAre(s) ==
    /\ people_file = JsonFile(s.people)
    /\ projects_file = JsonFile(s.projects)
    /\ allocations_file = JsonFile(s.allocations)

\* C1: after every append_event call that returns normally, the three
\* persisted snapshots equal the fold of the entire journal, from three
\* empty maps, through the reducer.
C1_StateEqualsReplay ==
    AppendReturned =>
        /\ Reduce(JL).err = "none"
        /\ load_state(people_file) = Reduce(JL).people
        /\ load_state(projects_file) = Reduce(JL).projects
        /\ load_state(allocations_file) = Reduce(JL).allocations
        /\ people_file.kind = "json"
        /\ projects_file.kind = "json"
        /\ allocations_file.kind = "json"

C1_Witness ==
    /\ AppendReturned
    /\ Len(journal) >= 2
    /\ DOMAIN load_state(people_file) # {}
    /\ DOMAIN load_state(projects_file) # {}

\* A snapshot that parses holds the fold of what the journal held at some
\* earlier moment, i.e. of a prefix of the chunks written so far.
FromJournalPrefix(file, map) ==
    file.kind = "json" =>
        \E k \in 0..Len(journal) :
            LET s == Reduce(Lines(SubSeq(journal, 1, k)))
            IN s.err = "none" /\ file.data = s[map]

\* C2: append_event appends the record to the journal first and only then
\* rebuilds, synchronously: while and after the rebuild runs the record is
\* already the last one of the journal, no snapshot reflects anything but
\* events of the journal, and when append_event has returned all three
\* snapshots have been rewritten from a journal that holds the event.
C2_JournalThenRebuild ==
    /\ FromJournalPrefix(people_file, "people")
    /\ FromJournalPrefix(projects_file, "projects")
    /\ FromJournalPrefix(allocations_file, "allocations")
    /\ (caller = "append_event" /\ (pc # "idle" \/ outcome = "returned")) =>
           /\ journal # <<>>
           /\ journal[Len(journal)] = FullChunk(event)
    /\ AppendReturned => SnapshotsAre(Replay(journal_exists, journal))

C2_Witness ==
    /\ caller = "append_event"
    /\ pc = "save_projects"
    /\ people_file = JsonFile(Reduce(JL).people)
    /\ projects_file # JsonFile(Reduce(JL).projects)
    /\ Len(journal) >= 2

\* C3: the journal is append-only: every step leaves what was written
\* before unchanged and in place, the write of append_event adds exactly the
\* one record of its event at the end, and rebuild_state (reading, folding,
\* saving) leaves the journal as it is.
C3_JournalAppendOnly ==
    [][ /\ Len(journal') >= Len(journal)
        /\ SubSeq(journal', 1, Len(journal)) = journal
        /\ Len(journal') <= Len(journal) + 1
        /\ (pc = "idle" /\ pc' = "rebuild" /\ caller' = "append_event") =>
               journal' = Append(journal, FullChunk(event'))
        /\ (pc # "idle" \/ caller' = "rebuild_state") =>
               (journal' = journal /\ journal_exists' = journal_exists)
      ]_vars

C3_Witness ==
    /\ Len(journal) >= 3
    /\ pc = "save_allocations"
    /\ \A i \in 1..Len(journal) : journal[i].ev.event_id = ToString(i)

C5_UnparseableSkipped ==
    /\ Reduce(JL) = Reduce(SelectSeq(JL, Parses))
    /\ outcome # "JSONDecodeError"

\* The payload keys section 6 of the specification requires of each type.
RequiredKeys(t) ==
    CASE t = "PERSON_ADDED" ->
             {"email", "name", "capacity", "skill", "is_active"}
      [] t \in {"PERSON_EDITED", "PERSON_DELETED"} -> {"email"}
      [] t = "PERSON_OFFBOARDED" -> {"email", "exit_date"}
      [] t = "UNAVAILABILITY_ADDED" -> {"email", "start_date", "end_date"}
      [] t = "PROJECT_ADDED" ->
             {"project_id", "name", "status", "probability",
              "required_skills"}
      [] t \in {"PROJECT_EDITED", "PROJECT_DELETED"} -> {"project_id"}
      [] t = "ALLOCATION_ADDED" ->
             {"allocation_id", "project_id", "email", "hours",
              "start_date", "end_date"}
      [] t = "ALLOCATION_REMOVED" -> {"allocation_id"}
      [] OTHER -> {}

WellFormed(line) ==
    Parses(line) /\ RequiredKeys(TypeOf(line)) \subseteq DOMAIN PayloadOf(line)

\* C6 as stated: an event of a known type whose payload lacks a required
\* key never aborts the reduction: it has no effect, the later events are
\* applied, and rebuild_state ends having written the snapshots.
C6_MalformedPayloadSkipped ==
    (\A i \in 1..Len(JL) : Parses(JL[i])) =>
        /\ Reduce(JL).err = "none"
        /\ Reduce(JL) = Reduce(SelectSeq(JL, WellFormed))
        /\ outcome # "KeyError"

\* C7: an event whose event_type is not one of the ten known types changes
\* none of the three maps and raises nothing, and the events after it are
\* applied as if it were not there.
C7_UnknownTypeIgnored ==
    LET L == JL
    IN \A i \in 1..Len(L) :
           (Parses(L[i]) /\ TypeOf(L[i]) \notin KnownTypes) =>
               LET old == After(L, i - 1)
               IN /\ old.err = "none" => After(L, i) = old
                  /\ Reduce(L) = Reduce(Without(L, i))

C7_Witness ==
    /\ AppendReturned
    /\ Len(JL) = 3
    /\ TypeOf(JL[1]) = "PERSON_ADDED"
    /\ TypeOf(JL[2]) = "SKILL_ENDORSED"
    /\ TypeOf(JL[3]) = "PERSON_EDITED"
    /\ "a@x.com" \in DOMAIN load_state(people_file)
    /\ load_state(people_file)["a@x.com"]["capacity"] = 50

\* The map an event type works on and the payload field that holds its key.
MapOf(t) ==
    CASE t \in {"PERSON_ADDED", "PERSON_EDITED", "PERSON_DELETED",
                "PERSON_OFFBOARDED", "UNAVAILABILITY_ADDED"} -> "people"
      [] t \in {"PROJECT_ADDED", "PROJECT_EDITED", "PROJECT_DELETED"} ->
             "projects"
      [] OTHER -> "allocations"

KeyFieldOf(t) ==
    CASE MapOf(t) = "people" -> "email"
      [] MapOf(t) = "projects" -> "project_id"
      [] OTHER -> "allocation_id"

MutatingTypes ==
    {"PERSON_EDITED", "PERSON_DELETED", "PERSON_OFFBOARDED",
     "UNAVAILABILITY_ADDED", "PROJECT_EDITED", "PROJECT_DELETED",
     "ALLOCATION_REMOVED"}

\* The i-th line is an event of type t that names a key.
Targets(L, i, t) ==
    /\ Parses(L[i])
    /\ TypeOf(L[i]) = t
    /\ After(L, i - 1).err = "none"
    /\ Has(PayloadOf(L[i]), KeyFieldOf(t))

KeyOf(line) == PayloadOf(line)[KeyFieldOf(TypeOf(line))]

\* C8: an edit, delete, offboard, unavailability or removal event whose key
\* is not in its map at that point of the replay is a no-op: the three maps
\* are unchanged, no entry is created, no error is raised.
C8_MissingKeyNoOp ==
    LET L == JL
    IN \A i \in 1..Len(L) :
           (/\ Parses(L[i])
            /\ TypeOf(L[i]) \in MutatingTypes
            /\ Has(PayloadOf(L[i]), KeyFieldOf(TypeOf(L[i])))) =>
               LET old == After(L, i - 1)
                   new == After(L, i)
                   k == KeyOf(L[i])
                   m == MapOf(TypeOf(L[i]))
               IN (old.err = "none" /\ k \notin DOMAIN old[m]) =>
                      /\ new = old
                      /\ new.err = "none"
                      /\ k \notin DOMAIN new[m]

C8_Witness ==
    /\ AppendReturned
    /\ Len(JL) = 3
    /\ TypeOf(JL[1]) = "PERSON_EDITED"
    /\ Has(PayloadOf(JL[1]), "email")
    /\ TypeOf(JL[2]) = "PROJECT_DELETED"
    /\ TypeOf(JL[3]) = "PERSON_OFFBOARDED"
    /\ load_state(people_file) = EmptyDict
    /\ load_state(projects_file) = EmptyDict

\* new is old with the fields of data overwritten and nothing else changed.
MergedInto(old, data, new) ==
    /\ DOMAIN new = (DOMAIN old) \cup (DOMAIN data)
    /\ \A f \in DOMAIN data : new[f] = data[f]
    /\ \A f \in (DOMAIN old) \ (DOMAIN data) : new[f] = old[f]

\* C9: PERSON_EDITED (PROJECT_EDITED) for a key present in the map is a
\* shallow merge: the record then holds the payload's value for every field
\* of the payload and its previous value for every other field, and no other
\* record changes.
C9_ShallowMerge ==
    LET L == JL
    IN \A i \in 1..Len(L) :
           (/\ Parses(L[i])
            /\ TypeOf(L[i]) \in {"PERSON_EDITED", "PROJECT_EDITED"}
            /\ Has(PayloadOf(L[i]), KeyFieldOf(TypeOf(L[i])))) =>
               LET old == After(L, i - 1)
                   new == After(L, i)
                   k == KeyOf(L[i])
                   m == MapOf(TypeOf(L[i]))
               IN (old.err = "none" /\ k \in DOMAIN old[m]) =>
                      /\ new.err = "none"
                      /\ DOMAIN new[m] = DOMAIN old[m]
                      /\ MergedInto(old[m][k], PayloadOf(L[i]), new[m][k])
                      /\ \A x \in (DOMAIN old[m]) \ {k} :
                             new[m][x] = old[m][x]
                      /\ \A o \in {"people", "projects", "allocations"}
                                    \ {m} : new[o] = old[o]

C9_Witness ==
    /\ AppendReturned
    /\ Len(JL) = 3
    /\ TypeOf(JL[3]) = "PERSON_EDITED"
    /\ DOMAIN load_state(people_file) = {"a@x.com", "b@x.com"}
    /\ load_state(people_file)["a@x.com"]["capacity"] = 50
    /\ load_state(people_file)["a@x.com"]["name"] = "Ann"
    /\ load_state(people_file)["b@x.com"] = Bob

\* Line j deletes the person that line i added, with no other event for that
\* person in between.
AddedThenDeleted(L, i, j) ==
    /\ i < j
    /\ Targets(L, i, "PERSON_ADDED")
    /\ Targets(L, j, "PERSON_DELETED")
    /\ KeyOf(L[i]) = KeyOf(L[j])
    /\ \A x \in (i + 1)..(j - 1) :
           ~(MapOf(TypeOf(L[x])) = "people"
             /\ Has(PayloadOf(L[x]), "email")
             /\ PayloadOf(L[x])["email"] = KeyOf(L[i]))

InactiveCopy(data, rec) ==
    /\ DOMAIN rec = (DOMAIN data) \cup {"is_active"}
    /\ rec["is_active"] = FALSE
    /\ \A f \in (DOMAIN data) \ {"is_active"} : rec[f] = data[f]

\* C10: after PERSON_ADDED followed by PERSON_DELETED for the same email the
\* person is still a key of the people map, with is_active false and every
\* other field as added; the snapshot written from that journal holds the
\* same inactive record as a replay from scratch; and the steps that
\* rebuild and save keep both records in the journal.
C10_SoftDelete ==
    /\ [](LET L == JL
          IN \A j \in 1..Len(L) :
                 (Parses(L[j]) /\ TypeOf(L[j]) = "PERSON_DELETED") =>
                 \A i \in 1..(j - 1) :
                     AddedThenDeleted(L, i, j) =>
                         LET e == KeyOf(L[i])
                             old == After(L, j - 1)
                             new == After(L, j)
                         IN /\ e \in DOMAIN new.people
                            /\ InactiveCopy(PayloadOf(L[i]), new.people[e])
                            /\ \A x \in (DOMAIN old.people) \ {e} :
                                   new.people[x] = old.people[x]
                            /\ (AppendReturned /\ j = Len(L)) =>
                                   /\ e \in DOMAIN load_state(people_file)
                                   /\ load_state(people_file)[e]
                                          = Reduce(L).people[e]
                                   /\ load_state(people_file)[e]["is_active"]
                                          = FALSE)
    /\ [][journal' # journal =>
            LET L == JL
            IN \A j \in 1..Len(L) :
                   (Parses(L[j]) /\ TypeOf(L[j]) = "PERSON_DELETED") =>
                   \A i \in 1..(j - 1) :
                       AddedThenDeleted(L, i, j) =>
                           /\ Len(Lines(journal')) >= Len(L)
                           /\ Lines(journal')[i] = L[i]
                           /\ Lines(journal')[j] = L[j]]_vars

C10_Witness ==
    /\ AppendReturned
    /\ AddedThenDeleted(JL, 1, Len(JL))
    /\ Len(JL) = 3
    /\ load_state(people_file)["a@x.com"]["is_active"] = FALSE
    /\ load_state(people_file)["a@x.com"]["name"] = "Ann"

\* C11: ALLOCATION_REMOVED for an allocation_id present in the allocations
\* map removes that key entirely and leaves every other allocation, and the
\* other two maps, unchanged.
C11_HardDelete ==
    LET L == JL
    IN \A i \in 1..Len(L) :
           (/\ Parses(L[i])
            /\ TypeOf(L[i]) = "ALLOCATION_REMOVED"
            /\ Has(PayloadOf(L[i]), "allocation_id")) =>
               LET old == After(L, i - 1)
                   new == After(L, i)
                   k == KeyOf(L[i])
               IN (old.err = "none" /\ k \in DOMAIN old.allocations) =>
                      /\ new.err = "none"
                      /\ k \notin DOMAIN new.allocations
                      /\ DOMAIN new.allocations
                             = (DOMAIN old.allocations) \ {k}
                      /\ \A x \in DOMAIN new.allocations :
                             new.allocations[x] = old.allocations[x]
                      /\ new.people = old.people
                      /\ new.projects = old.projects

C11_Witness ==
    /\ AppendReturned
    /\ Len(JL) = 3
    /\ TypeOf(JL[3]) = "ALLOCATION_REMOVED"
    /\ DOMAIN After(JL, 2).allocations = {"abc123", "def456"}
    /\ DOMAIN load_state(allocations_file) = {"def456"}
    /\ load_state(allocations_file)["def456"] = Def456

\* The unavailability list of a person record, empty when it has none.
UnavailabilityOf(rec) ==
    IF Has(rec, "unavailability") THEN rec["unavailability"] ELSE <<>>

\* C12 as stated: UNAVAILABILITY_ADDED for an email present in the people
\* map appends one entry {start_date, end_date, reason} (reason "PTO" when
\* the payload has none) to that person's unavailability list, creating the
\* list if it is missing, so that the list holds the entries in journal
\* order.
C12_UnavailabilityAppended ==
    LET L == JL
    IN \A i \in 1..Len(L) :
           (/\ Parses(L[i])
            /\ TypeOf(L[i]) = "UNAVAILABILITY_ADDED"
            /\ RequiredKeys("UNAVAILABILITY_ADDED")
                   \subseteq DOMAIN PayloadOf(L[i])) =>
               LET old == After(L, i - 1)
                   new == After(L, i)
                   d == PayloadOf(L[i])
                   e == d["email"]
               IN (old.err = "none" /\ e \in DOMAIN old.people) =>
                      /\ new.err = "none"
                      /\ e \in DOMAIN new.people
                      /\ UnavailabilityOf(new.people[e])
                             = Append(UnavailabilityOf(old.people[e]),
                                  [start_date |-> d["start_date"],
                                   end_date |-> d["end_date"],
                                   reason |-> IF Has(d, "reason")
                                              THEN d["reason"] ELSE "PTO"])

\* C13: PERSON_ADDED, PROJECT_ADDED and ALLOCATION_ADDED are full inserts:
\* after the event the entry under the payload's key equals the payload
\* exactly, nothing added or defaulted, whether or not the key existed
\* before; every other entry and the other two maps are unchanged.
C13_FullInsert ==
    LET L == JL
    IN \A i \in 1..Len(L) :
           (/\ Parses(L[i])
            /\ TypeOf(L[i]) \in {"PERSON_ADDED", "PROJECT_ADDED",
                                 "ALLOCATION_ADDED"}
            /\ Has(PayloadOf(L[i]), KeyFieldOf(TypeOf(L[i])))) =>
               LET old == After(L, i - 1)
                   new == After(L, i)
                   k == KeyOf(L[i])
                   m == MapOf(TypeOf(L[i]))
               IN old.err = "none" =>
                      /\ new.err = "none"
                      /\ DOMAIN new[m] = (DOMAIN old[m]) \cup {k}
                      /\ new[m][k] = PayloadOf(L[i])
                      /\ DOMAIN new[m][k] = DOMAIN PayloadOf(L[i])
                      /\ \A x \in (DOMAIN old[m]) \ {k} :
                             new[m][x] = old[m][x]
                      /\ \A o \in {"people", "projects", "allocations"}
                                    \ {m} : new[o] = old[o]

C13_Witness ==
    /\ AppendReturned
    /\ Len(JL) = 3
    /\ TypeOf(JL[1]) = "PERSON_ADDED"
    /\ TypeOf(JL[2]) = "PERSON_OFFBOARDED"
    /\ TypeOf(JL[3]) = "PERSON_ADDED"
    /\ "a@x.com" \in DOMAIN After(JL, 2).people
    /\ Has(After(JL, 2).people["a@x.com"], "exit_date")
    /\ PayloadOf(JL[3]) = Ann
    /\ load_state(people_file)["a@x.com"] = Ann
    /\ load_state(people_file)["a@x.com"]["name"] = "Ann"
    /\ load_state(people_file)["a@x.com"]["is_active"] = TRUE

\* A rebuild_state that runs right after a call that returned: the journal
\* has had no append since the snapshots were last written in full.
SecondRebuild ==
    /\ caller = "rebuild_state"
    /\ outcome = "returned"
    /\ pc # "idle"

\* C15: rebuild_state is idempotent: a rebuild_state that follows a
\* completed rebuild with no append in between runs to its return and, at
\* each of its steps and at its return, leaves the three snapshots equal to
\* what the first rebuild wrote.
C15_RebuildIdempotent ==
    [][SecondRebuild =>
          /\ people_file' = before.people
          /\ projects_file' = before.projects
          /\ allocations_file' = before.allocations
          /\ pc' = "idle" => outcome' = "returned"]_vars

C15_Witness ==
    /\ SecondRebuild
    /\ pc = "save_allocations"
    /\ Len(JL) >= 2
    /\ before.people.kind = "json"
    /\ "a@x.com" \in DOMAIN before.people.data
    /\ before.projects.kind = "json"
    /\ "apollo" \in DOMAIN before.projects.data
    /\ people_file = before.people
    /\ projects_file = before.projects

\* The journal holds no record: the file is missing or has no bytes.
NoJournal == ~journal_exists \/ journal = <<>>

\* C16: with a journal that is empty or does not exist, rebuild_state raises
\* nothing (its replay goes on to the three saves with three empty
\* dictionaries) and, once it returned, each snapshot is an empty map and
\* load_state gives an empty map for people, projects and allocations.
C16_EmptyJournalEmptyMaps ==
    /\ [][(pc = "rebuild" /\ NoJournal) =>
              /\ pc' = "save_people"
              /\ state_people' = EmptyDict
              /\ state_projects' = EmptyDict
              /\ state_allocations' = EmptyDict]_vars
    /\ []((pc = "idle" /\ outcome = "returned" /\ NoJournal) =>
              /\ people_file = JsonFile(EmptyDict)
              /\ projects_file = JsonFile(EmptyDict)
              /\ allocations_file = JsonFile(EmptyDict)
              /\ load_state(people_file) = EmptyDict
              /\ load_state(projects_file) = EmptyDict
              /\ load_state(allocations_file) = EmptyDict)

\* rebuild_state returned over a journal file that exists and is empty (an
\* append_event that died after creating it).
C16_Witness ==
    /\ pc = "idle"
    /\ caller = "rebuild_state"
    /\ outcome = "returned"
    /\ journal_exists
    /\ journal = <<>>
    /\ people_file = JsonFile(EmptyDict)
    /\ allocations_file = JsonFile(EmptyDict)

\* C17 as stated: snapshot replacement is atomic: whatever a step taken while
\* rebuild_state saves does, a crash in the middle of a write included, each
\* snapshot is afterwards such that load_state of it gives either the
\* complete map from before the rebuild or the complete new map, never what
\* an emptied or half-written file gives.
C17_AtomicReplacement ==
    [][(pc \in {"save_people", "save_projects", "save_allocations"}) =>
          /\ load_state(people_file')
                 \in {load_state(before.people), state_people}
          /\ load_state(projects_file')
                 \in {load_state(before.projects), state_projects}
          /\ load_state(allocations_file')
                 \in {load_state(before.allocations),
                      state_allocations}]_vars

\* C18 as stated: load_state never raises to the caller: it gives the
\* persisted map when the snapshot is readable and an empty map when the
\* snapshot was never built, is corrupt, or cannot be read for any other
\* reason.
C18_LoadNeverRaises ==
    [][(loaded' # loaded) =>
          /\ loaded'.raised = None
          /\ \E name \in SnapshotNames :
                 /\ loaded'.file = name
                 /\ loaded'.dict = IF FileOf(name).kind = "json"
                                   THEN FileOf(name).data ELSE EmptyDict]_vars

\* C19 as stated: when a storage write fails during append_event, on the
\* journal or on one of the three snapshots, the error reaches the caller
\* and the three snapshots are exactly as they were before the call.
C19_FailedWriteLeavesSnapshots ==
    [][(faults' = faults + 1 /\ outcome' = "OSError"
            /\ caller' = "append_event") =>
          /\ pc' = "idle"
          /\ Snapshots(people_file', projects_file', allocations_file')
                 = IF pc = "idle"
                   THEN Snapshots(people_file, projects_file,
                                  allocations_file)
                   ELSE before]_vars

\* The call under way follows one that did not return, and the record that
\* earlier call was about (the last of the journal, or the one before the
\* record this append_event has just written) went into the journal in full.
RebuildAfterFailure ==
    /\ pc # "idle"
    /\ outcome \notin {"none", "returned"}
    /\ LET n == IF caller = "append_event" THEN Len(journal) - 1
                ELSE Len(journal)
       IN /\ n >= 1
          /\ journal[n].complete
          /\ journal[n].nl

\* C20 as stated: self-healing: after a rebuild that failed although the
\* journal append went through, the journal keeps the record, and the next
\* rebuild_state (called alone or by the next append_event), storage being
\* writable, runs to its return and leaves the snapshots equal to the replay
\* of the full journal, whatever the snapshots held.
C20_SelfHealing ==
    [][(RebuildAfterFailure /\ faults' = faults) =>
          /\ journal' = journal
          /\ pc = "rebuild" => pc' = "save_people"
          /\ pc' = "idle" =>
                 /\ outcome' = "returned"
                 /\ SnapshotsAre(Replay(journal_exists, journal))']_vars

\* new is old with field f set to v and nothing else touched.
FieldSet(old, f, v, new) ==
    /\ DOMAIN new = (DOMAIN old) \cup {f}
    /\ new[f] = v
    /\ \A x \in (DOMAIN old) \ {f} : new[x] = old[x]

\* C26: people and projects are never physically removed: every key of the
\* people map (of the projects map) after a prefix of the journal is still a
\* key after any longer prefix, and a people or projects snapshot that is
\* rewritten keeps every key it had; allocation keys alone can disappear.
C26_KeysNeverRemoved ==
    /\ [](LET L == JL
          IN \A i \in 1..Len(L) :
                 LET old == After(L, i - 1)
                     new == After(L, i)
                 IN /\ DOMAIN old.people \subseteq DOMAIN new.people
                    /\ DOMAIN old.projects \subseteq DOMAIN new.projects)
    /\ [][/\ DOMAIN load_state(people_file)
                 \subseteq DOMAIN load_state(people_file')
          /\ DOMAIN load_state(projects_file)
                 \subseteq DOMAIN load_state(projects_file')]_vars

\* A project that was deleted is still a key of the snapshot written after a
\* later event.
C26_Witness ==
    /\ AppendReturned
    /\ Len(JL) = 3
    /\ TypeOf(JL[1]) = "PROJECT_ADDED"
    /\ TypeOf(JL[2]) = "PROJECT_DELETED"
    /\ TypeOf(JL[3]) = "PERSON_ADDED"
    /\ DOMAIN load_state(projects_file) = {"apollo"}
    /\ load_state(projects_file)["apollo"]["status"] = "Deleted"
    /\ DOMAIN load_state(people_file) = {"a@x.com"}

\* C29: PERSON_OFFBOARDED with an exit_date, for an email present in the
\* people map, sets that record's exit_date to the payload's and leaves
\* every other field of the record, every other person and the other two
\* maps unchanged.
C29_OffboardSetsExitDate ==
    LET L == JL
    IN \A i \in 1..Len(L) :
           (/\ Parses(L[i])
            /\ TypeOf(L[i]) = "PERSON_OFFBOARDED"
            /\ Has(PayloadOf(L[i]), "email")
            /\ Has(PayloadOf(L[i]), "exit_date")) =>
               LET old == After(L, i - 1)
                   new == After(L, i)
                   e == PayloadOf(L[i])["email"]
               IN (old.err = "none" /\ e \in DOMAIN old.people) =>
                      /\ new.err = "none"
                      /\ DOMAIN new.people = DOMAIN old.people
                      /\ FieldSet(old.people[e], "exit_date",
                                  PayloadOf(L[i])["exit_date"],
                                  new.people[e])
                      /\ \A x \in (DOMAIN old.people) \ {e} :
                             new.people[x] = old.people[x]
                      /\ new.projects = old.projects
                      /\ new.allocations = old.allocations

C29_Witness ==
    /\ AppendReturned
    /\ Len(JL) = 3
    /\ TypeOf(JL[1]) = "PERSON_ADDED"
    /\ TypeOf(JL[2]) = "PERSON_ADDED"
    /\ TypeOf(JL[3]) = "PERSON_OFFBOARDED"
    /\ Has(PayloadOf(JL[3]), "exit_date")
    /\ DOMAIN load_state(people_file) = {"a@x.com", "b@x.com"}
    /\ Has(load_state(people_file)["a@x.com"], "exit_date")
    /\ load_state(people_file)["a@x.com"]["exit_date"] = "2025-12-31"
    /\ load_state(people_file)["a@x.com"]["is_active"] = TRUE
    /\ load_state(people_file)["b@x.com"] = Bob

\* C30: PROJECT_DELETED for a project_id present in the projects map sets
\* that record's status to "Deleted" and leaves every other field of the
\* record, every other project and the other two maps unchanged.
C30_ProjectSoftDelete ==
    LET L == JL
    IN \A i \in 1..Len(L) :
           (/\ Parses(L[i])
            /\ TypeOf(L[i]) = "PROJECT_DELETED"
            /\ Has(PayloadOf(L[i]), "project_id")) =>
               LET old == After(L, i - 1)
                   new == After(L, i)
                   k == PayloadOf(L[i])["project_id"]
               IN (old.err = "none" /\ k \in DOMAIN old.projects) =>
                      /\ new.err = "none"
                      /\ DOMAIN new.projects = DOMAIN old.projects
                      /\ FieldSet(old.projects[k], "status", "Deleted",
                                  new.projects[k])
                      /\ \A x \in (DOMAIN old.projects) \ {k} :
                             new.projects[x] = old.projects[x]
                      /\ new.people = old.people
                      /\ new.allocations = old.allocations

C30_Witness ==
    /\ AppendReturned
    /\ Len(JL) = 3
    /\ TypeOf(JL[1]) = "PROJECT_ADDED"
    /\ TypeOf(JL[2]) = "PROJECT_EDITED"
    /\ TypeOf(JL[3]) = "PROJECT_DELETED"
    /\ After(JL, 2).projects["apollo"]["status"] = "Lost"
    /\ "apollo" \in DOMAIN load_state(projects_file)
    /\ load_state(projects_file)["apollo"]["status"] = "Deleted"
    /\ load_state(projects_file)["apollo"]["name"] = "Apollo"
    /\ load_state(projects_file)["apollo"]["probability"] = 100

\* C22: append_event never silently drops an event: a call that returned
\* left its event as the last line of the journal, complete, on a line of
\* its own and once; and every call either adds the complete record to the
\* journal as it starts or ends in an I/O error (or with the process dead),
\* never returning with the journal as it was.
C22_NeverDropsEvent ==
    /\ [](AppendReturned =>
              LET L == JL
              IN /\ L # <<>>
                 /\ L[Len(L)] = <<FullChunk(event)>>
                 /\ Cardinality({i \in 1..Len(journal) :
                                    journal[i].ev = event}) = 1)
    /\ [][(pc = "idle" /\ caller' = "append_event" /\ event' # event) =>
              \/ /\ journal' = Append(journal, FullChunk(event'))
                 /\ pc' = "rebuild"
              \/ /\ outcome' \in {"OSError", "crashed"}
                 /\ pc' = "idle"]_vars

\* An append_event that returned after an earlier one failed with nothing
\* written.
C22_Witness ==
    /\ AppendReturned
    /\ faults = 1
    /\ Len(journal) = 2
    /\ journal[2] = FullChunk(event)
    /\ event.event_type = "ALLOCATION_ADDED"
    /\ event.payload = Abc123

\* C23: every record append_event writes carries an event_id that differs
\* from the event_id of every record already in the journal, the timestamp
\* of the append (later than every earlier record's), and the event_type and
\* payload of one of the callers' inputs, unchanged; its four fields are
\* event_id, timestamp, event_type and payload, and an event_id or timestamp
\* the caller puts in the payload stays in the payload.
C23_RecordFields ==
    [][(pc = "idle" /\ pc' = "rebuild" /\ caller' = "append_event") =>
          LET rec == journal'[Len(journal')].ev
          IN /\ journal'[Len(journal')].complete
             /\ DOMAIN rec = {"event_id", "timestamp", "event_type", "payload"}
             /\ rec.event_id # None
             /\ \A i \in 1..Len(journal) :
                    /\ journal[i].ev.event_id # rec.event_id
                    /\ journal[i].ev.timestamp < rec.timestamp
             /\ \E c \in Calls :
                    /\ rec.event_type = c.event_type
                    /\ rec.payload = c.payload
             /\ Has(rec.payload, "event_id")
                    => rec.event_id # rec.payload["event_id"]
             /\ Has(rec.payload, "timestamp")
                    => rec.timestamp # rec.payload["timestamp"]]_vars

\* The journal holds a record whose payload brings an event_id and a
\* timestamp, under an event_id and a timestamp of its own.
C23_Witness ==
    /\ AppendReturned
    /\ Len(journal) = 3
    /\ journal[3].ev.event_type = "SKILL_ENDORSED"
    /\ Has(journal[3].ev.payload, "event_id")
    /\ journal[3].ev.payload["event_id"] = "forged"
    /\ journal[3].ev.event_id = uuid4(3)
    /\ journal[3].ev.event_id # journal[1].ev.event_id
    /\ journal[3].ev.event_id # journal[2].ev.event_id
    /\ journal[3].ev.timestamp > journal[2].ev.timestamp

\* A chunk of the journal that a cut write left.
CutAt(k) == ~journal[k].complete \/ ~journal[k].nl

\* C28 as stated: a crash in the middle of a journal append costs at most
\* the interrupted record: the records before it still replay, and every
\* event appended by a later append_event is stored as a record (a line) of
\* its own and applied by the reducer, so that the call returns with the
\* snapshots holding what the whole records of the journal replay to.
C28_CrashCostsOneRecord ==
    \A k \in 1..Len(journal) :
        CutAt(k) =>
            /\ Reduce(Lines(SubSeq(journal, 1, k - 1))).err
                   \in {"none", "KeyError"}
            /\ \A j \in (k + 1)..Len(journal) :
                   (~CutAt(j)) =>
                       /\ \E i \in 1..Len(JL) : JL[i] = <<journal[j]>>
                       /\ (j = Len(journal) /\ caller = "append_event"
                              /\ pc = "idle"
                              /\ Reduce(SelectSeq(JL, Parses)).err = "none")
                              => /\ outcome = "returned"
                                 /\ SnapshotsAre(Reduce(SelectSeq(JL, Parses)))

\* The four files.
Files == <<journal_exists, journal, people_file, projects_file,
           allocations_file>>

\* A step of append_event: its write to the journal, whole or cut, or one of
\* the saves of its rebuild, done or cut.
AppendEventStep ==
    /\ caller' = "append_event"
    /\ \/ pc = "idle" /\ pc' = "rebuild"
             /\ journal' = Append(journal, FullChunk(event'))
       \/ pc = "idle" /\ pc' = "idle" /\ faults' = faults + 1
             /\ outcome' = "crashed"
       \/ pc \in {"save_people", "save_projects", "save_allocations"}

\* C21: append_event is the only mutation path: every step of a CLI command
\* (people, project, migrate_all_codes) that changes the journal or one of
\* the three snapshots is a step of append_event, and the commands that list
\* or report leave the four files as they are.
C21_OnlyMutationPath ==
    /\ [][Files' # Files => AppendEventStep]_vars
    /\ [][(loaded' # loaded) => Files' = Files]_vars

\* A listing of the people right after migrate_all_codes gave Ann a new
\* short code.
C21_Witness ==
    /\ AppendReturned
    /\ Len(journal) = 3
    /\ event.event_type = "PERSON_EDITED"
    /\ DOMAIN event.payload = {"email", "short_code"}
    /\ loaded.file = "people"
    /\ loaded.dict = load_state(people_file)
    /\ "a@x.com" \in DOMAIN loaded.dict
    /\ loaded.dict["a@x.com"]["short_code"] = event.payload["short_code"]

\* C24 as stated: an email is never reused: in any sequence of CLI commands
\* (each run to its end), no PERSON_ADDED is appended for an email that is
\* already a key of the people map, active or inactive.
C24_EmailNeverReused ==
    [][(pc = "idle" /\ pc' = "rebuild"
            /\ event'.event_type = "PERSON_ADDED") =>
          event'.payload["email"]
              \notin DOMAIN Replay(journal_exists, journal).people]_vars

\* C25 as stated: a project_id is generated once and never reused: with one
\* command at a time, add_project never appends PROJECT_ADDED with a
\* project_id that is already a key of the projects map (deleted projects
\* included), and a PROJECT_EDITED that renames a project leaves it under
\* the same project_id.
C25_ProjectIdNeverReused ==
    /\ [][(pc = "idle" /\ pc' = "rebuild"
               /\ event'.event_type = "PROJECT_ADDED") =>
             event'.payload["project_id"]
                 \notin DOMAIN Replay(journal_exists, journal).projects]_vars
    /\ [](LET L == JL
          IN \A i \in 1..Len(L) :
                 (/\ Parses(L[i])
                  /\ TypeOf(L[i]) = "PROJECT_EDITED"
                  /\ Has(PayloadOf(L[i]), "name")) =>
                     LET old == After(L, i - 1)
                         new == After(L, i)
                         k == PayloadOf(L[i])["project_id"]
                     IN (old.err = "none" /\ k \in DOMAIN old.projects) =>
                            /\ DOMAIN new.projects = DOMAIN old.projects
                            /\ new.projects[k]["project_id"] = k
                            /\ new.projects[k]["name"]
                                   = PayloadOf(L[i])["name"])

\* The last call of each of the two processes has returned.
BothReturned ==
    /\ AppendReturned
    /\ peer.pc = "idle"
    /\ peer.outcome = "returned"

\* A snapshot holds what a replay of the first k lines gives, for some k.
FromSomePrefix(file, map) ==
    \E k \in 0..Len(JL) : file = JsonFile(After(JL, k)[map])

\* C27: what two unlocked processes keep and what they do not: when the last
\* call of each has returned, the journal holds the record of both, whole,
\* and each snapshot is the replay of some prefix of the journal; that the
\* prefix need not be the whole journal is the state of C27_Witness.
C27_NoIsolation ==
    BothReturned =>
        /\ \E i \in 1..Len(journal) : journal[i] = FullChunk(event)
        /\ \E i \in 1..Len(journal) : journal[i] = FullChunk(peer.event)
        /\ Reduce(JL).err = "none" =>
               /\ FromSomePrefix(people_file, "people")
               /\ FromSomePrefix(projects_file, "projects")
               /\ FromSomePrefix(allocations_file, "allocations")

\* Both calls have returned, the journal replays without error, and the
\* persisted snapshots are not the replay of the journal: the process that
\* read the journal first saved last.
C27_Witness ==
    /\ BothReturned
    /\ Len(journal) = 2
    /\ Reduce(JL).err = "none"
    /\ ~SnapshotsAre(Reduce(JL))
    /\ journal[1] = FullChunk(event)
    /\ journal[2] = FullChunk(peer.event)

PersonTypes ==
    { "PERSON_ADDED", "PERSON_EDITED", "PERSON_DELETED", "PERSON_OFFBOARDED",
      "UNAVAILABILITY_ADDED" }
ProjectTypes == { "PROJECT_ADDED", "PROJECT_EDITED", "PROJECT_DELETED" }
AllocationTypes == { "ALLOCATION_ADDED", "ALLOCATION_REMOVED" }

\* Two maps differ at most in the entry under the key the payload names.
SameButKey(old, new, data, key) ==
    LET own == IF Has(data, key) THEN {data[key]} ELSE {}
    IN /\ (DOMAIN old) \ own = (DOMAIN new) \ own
       /\ \A k \in (DOMAIN old) \ own : new[k] = old[k]

\* C31: each event changes at most the entry under its own key in its own
\* map: a person event leaves projects and allocations as they are, a
\* project event people and allocations, an allocation event people and
\* projects, and an event of any other type all three; so PERSON_DELETED and
\* PROJECT_DELETED keep every allocation of the deleted person or project.
C31_FrameEffect ==
    LET L == JL
    IN \A i \in 1..Len(L) :
           Parses(L[i]) =>
               LET old == After(L, i - 1)
                   new == After(L, i)
                   t == TypeOf(L[i])
                   data == PayloadOf(L[i])
               IN old.err = "none" =>
                      /\ t \in PersonTypes =>
                             /\ SameButKey(old.people, new.people, data,
                                           "email")
                             /\ new.projects = old.projects
                             /\ new.allocations = old.allocations
                      /\ t \in ProjectTypes =>
                             /\ SameButKey(old.projects, new.projects, data,
                                           "project_id")
                             /\ new.people = old.people
                             /\ new.allocations = old.allocations
                      /\ t \in AllocationTypes =>
                             /\ SameButKey(old.allocations, new.allocations,
                                           data, "allocation_id")
                             /\ new.people = old.people
                             /\ new.projects = old.projects
                      /\ t \notin KnownTypes =>
                             /\ new.people = old.people
                             /\ new.projects = old.projects
                             /\ new.allocations = old.allocations

\* Ann was deleted after she was allocated to a project that no event ever
\* added: the allocation is still in the snapshot.
C31_Witness ==
    /\ AppendReturned
    /\ Len(JL) = 3
    /\ TypeOf(JL[1]) = "PERSON_ADDED"
    /\ TypeOf(JL[2]) = "ALLOCATION_ADDED"
    /\ TypeOf(JL[3]) = "PERSON_DELETED"
    /\ load_state(allocations_file) = [x \in {"abc123"} |-> Abc123]
    /\ DOMAIN load_state(people_file) = {"a@x.com"}
    /\ load_state(people_file)["a@x.com"]["is_active"] = FALSE
    /\ load_state(projects_file) = EmptyDict

\* Line j writes field f of the person under key k: PERSON_ADDED stores its
\* whole payload, PERSON_EDITED the fields of its payload when k is a key.
WritesPersonField(L, j, k, f) ==
    /\ Parses(L[j])
    /\ Has(PayloadOf(L[j]), "email")
    /\ PayloadOf(L[j])["email"] = k
    /\ \/ TypeOf(L[j]) = "PERSON_ADDED"
       \/ /\ TypeOf(L[j]) = "PERSON_EDITED"
          /\ k \in DOMAIN After(L, j - 1).people
          /\ Has(PayloadOf(L[j]), f)

\* Line j adds or removes the allocation under key a.
WritesAllocation(L, j, a) ==
    /\ Parses(L[j])
    /\ TypeOf(L[j]) \in AllocationTypes
    /\ Has(PayloadOf(L[j]), "allocation_id")
    /\ PayloadOf(L[j])["allocation_id"] = a

Last(S) == CHOOSE j \in S : \A x \in S : x <= j

\* C32: the reducer is a left fold in journal order: a field of a person has
\* the value of the last line of the journal that wrote it (of two
\* PERSON_EDITED setting capacity the later wins), and an allocation is in
\* the map exactly when the last line that added or removed its id added it.
C32_LastWriterWins ==
    LET L == JL
        s == After(L, Len(L))
    IN s.err = "none" =>
           /\ \A k \in DOMAIN s.people : \A f \in {"name", "capacity"} :
                  LET W == { j \in 1..Len(L) : WritesPersonField(L, j, k, f) }
                  IN /\ W # {}
                     /\ IF Has(PayloadOf(L[Last(W)]), f)
                        THEN /\ Has(s.people[k], f)
                             /\ s.people[k][f] = PayloadOf(L[Last(W)])[f]
                        ELSE ~Has(s.people[k], f)
           /\ \A a \in {"abc123"} :
                  LET W == { j \in 1..Len(L) : WritesAllocation(L, j, a) }
                  IN a \in DOMAIN s.allocations <=>
                         /\ W # {}
                         /\ TypeOf(L[Last(W)]) = "ALLOCATION_ADDED"

\* Ann's capacity was set to 60 and then to 50: the snapshot says 50.
C32_Witness ==
    /\ AppendReturned
    /\ Len(JL) = 3
    /\ TypeOf(JL[1]) = "PERSON_ADDED"
    /\ TypeOf(JL[2]) = "PERSON_EDITED"
    /\ PayloadOf(JL[2])["capacity"] = 60
    /\ TypeOf(JL[3]) = "PERSON_EDITED"
    /\ PayloadOf(JL[3])["capacity"] = 50
    /\ load_state(people_file)["a@x.com"]["capacity"] = 50

\* C33 as stated: every allocation in the allocations map has start_date <=
\* end_date: no sequence of allocate_person commands appends an
\* ALLOCATION_ADDED whose end_date is earlier than its start_date.
C33_StartNotAfterEnd ==
    LET s == Reduce(JL)
    IN \A a \in DOMAIN s.allocations :
           DateNumber(s.allocations[a]["start_date"])
               <= DateNumber(s.allocations[a]["end_date"])

\* Line j is a PERSON_ADDED or PROJECT_ADDED that stores under key k.
AddsKey(L, j, t, key, k) ==
    /\ Parses(L[j])
    /\ TypeOf(L[j]) = t
    /\ Has(PayloadOf(L[j]), key)
    /\ PayloadOf(L[j])[key] = k

\* C34: the check and the append of a command are two steps: a command that
\* has its payload from the snapshot appends it whatever was appended since,
\* and of the ADDED events with one key the replay keeps the record of the
\* last; two add_project for one name (two add_person for one email) can so
\* both reach the journal, which is the state of C34_Witness.
C34_CheckThenAppend ==
    /\ [][(peer.pc = "checked" /\ peer' # peer) =>
             /\ Len(journal') = Len(journal) + 1
             /\ journal'[Len(journal')].complete
             /\ journal'[Len(journal')].ev.event_type = peer.event.event_type
             /\ journal'[Len(journal')].ev.payload = peer.event.payload]_vars
    /\ [](LET L == JL
              s == After(L, Len(L))
          IN s.err = "none" =>
                 /\ \A k \in DOMAIN s.projects :
                        LET W == { j \in 1..Len(L) :
                                     AddsKey(L, j, "PROJECT_ADDED",
                                             "project_id", k) }
                        IN W # {} /\ s.projects[k] = PayloadOf(L[Last(W)])
                 /\ \A k \in DOMAIN s.people :
                        LET W == { j \in 1..Len(L) :
                                     AddsKey(L, j, "PERSON_ADDED",
                                             "email", k) }
                        IN W # {} /\ s.people[k] = PayloadOf(L[Last(W)]))

\* Both users added the project Apollo: the journal holds two PROJECT_ADDED
\* for the id apollo, with different payloads, and the snapshot holds the
\* second one only.
C34_Witness ==
    /\ BothReturned
    /\ Len(JL) = 2
    /\ Parses(JL[1]) /\ Parses(JL[2])
    /\ TypeOf(JL[1]) = "PROJECT_ADDED"
    /\ TypeOf(JL[2]) = "PROJECT_ADDED"
    /\ PayloadOf(JL[1])["project_id"] = "apollo"
    /\ PayloadOf(JL[2])["project_id"] = "apollo"
    /\ PayloadOf(JL[1]) # PayloadOf(JL[2])
    /\ {event, peer.event} = {JsonLoads(JL[1]), JsonLoads(JL[2])}
    /\ load_state(projects_file) = [k \in {"apollo"} |-> PayloadOf(JL[2])]

\* The event of a turn of migrate_all_codes for a person.
PersonMigration(ev) ==
    /\ ev.event_type = "PERSON_EDITED"
    /\ DOMAIN ev.payload = {"email", "short_code"}

\* C35 as stated: migrate_all_codes appends an edit only for an entry whose
\* short code is missing or is not the one of the standard, so a second run
\* right after a first one appends nothing: with no project in the roster,
\* the run that follows a run which gave a person a code appends no event
\* for that person.
C35_MigrationIdempotent ==
    [][(/\ pc = "idle"
        /\ pc' = "rebuild"
        /\ AppendReturned
        /\ load_state(projects_file) = EmptyDict
        /\ PersonMigration(event)
        /\ journal[Len(journal)] = FullChunk(event)) =>
          ~(/\ PersonMigration(event')
            /\ event'.payload["email"] = event.payload["email"])]_vars

\* C36 as stated: the three snapshots are mutually consistent: at every
\* instant, also after a crash or a write failure between two _save_state
\* calls, what a reader loads from the people, projects and allocations
\* snapshots is the fold of one and the same prefix of the journal.
C36_SnapshotsConsistent ==
    LET L == JL
    IN \E k \in 0..Len(L) :
           LET s == After(L, k)
           IN /\ load_state(people_file) = s.people
              /\ load_state(projects_file) = s.projects
              /\ load_state(allocations_file) = s.allocations

\* Every record of a map has its key in the field named.
KeyedBy(map, field) ==
    \A k \in DOMAIN map : Has(map[k], field) /\ map[k][field] = k

\* C37: after every prefix of the journal, each record's identifying field
\* is the key it is stored under: people[k].email = k, projects[k].project_id
\* = k, allocations[k].allocation_id = k; no edit, delete or offboard event
\* changes it.
C37_KeyFieldIsKey ==
    LET L == JL
    IN \A i \in 0..Len(L) :
           LET s == After(L, i)
           IN /\ KeyedBy(s.people, "email")
              /\ KeyedBy(s.projects, "project_id")
              /\ KeyedBy(s.allocations, "allocation_id")

\* Ann was added, edited and offboarded: her record is still under her
\* email and still names it.
C37_Witness ==
    /\ AppendReturned
    /\ Len(JL) = 3
    /\ TypeOf(JL[1]) = "PERSON_ADDED"
    /\ TypeOf(JL[2]) = "PERSON_EDITED"
    /\ TypeOf(JL[3]) = "PERSON_OFFBOARDED"
    /\ DOMAIN load_state(people_file) = {"a@x.com"}
    /\ load_state(people_file)["a@x.com"]["email"] = "a@x.com"
    /\ load_state(people_file)["a@x.com"]["capacity"] = 50
    /\ load_state(people_file)["a@x.com"]["exit_date"] = "2025-12-31"

\* The event targets a key of the map the reducer has built from the
\* journal.
TargetsPresentKey(ev, s) ==
    /\ ev.event_type \in {"PERSON_EDITED", "PERSON_DELETED",
                          "PERSON_OFFBOARDED", "UNAVAILABILITY_ADDED"} =>
           ev.payload["email"] \in DOMAIN s.people
    /\ ev.event_type \in {"PROJECT_EDITED", "PROJECT_DELETED"} =>
           ev.payload["project_id"] \in DOMAIN s.projects
    /\ ev.event_type = "ALLOCATION_REMOVED" =>
           ev.payload["allocation_id"] \in DOMAIN s.allocations

\* C38 as stated: with CLI commands run one at a time, every edit, delete,
\* offboard, time-off, unallocate or migration event that is appended
\* targets a key that is in the corresponding map at the moment of the
\* append.
C38_TargetsPresentKey ==
    [][(pc = "idle" /\ pc' = "rebuild") =>
          TargetsPresentKey(event', Replay(journal_exists, journal))]_vars

Deleted(projects, k) ==
    /\ k \in DOMAIN projects
    /\ Get(projects[k], "status", None) = "Deleted"

\* C39 as stated: Deleted is a terminal project status under the CLI: with
\* commands run one at a time, a project whose status is "Deleted" after
\* some record of the journal has the status "Deleted" after every later
\* record.
C39_DeletedIsTerminal ==
    LET L == JL
    IN \A i \in 1..Len(L) :
           LET old == After(L, i - 1)
               new == After(L, i)
           IN \A k \in DOMAIN old.projects :
                  Deleted(old.projects, k) => Deleted(new.projects, k)

====
